---- MODULE Spec2Model ----
(***************************************************************************)
(* Model of the query path and of the ingestion of gorgias-brain:         *)
(*   backend/routers/inference.py   generate_suggestion, gorgias_widget    *)
(*   backend/services/reasoning_engine.py   ReasoningEngine                *)
(*   backend/services/vector_store.py   VectorService.embed_and_store      *)
(* One request is followed from entry to its response.  Time is a clock    *)
(* counted in ticks of half a second; it advances only while the request   *)
(* is blocked in an external call.  Similarity scores are percentages.     *)
(***************************************************************************)
EXTENDS Integers, Sequences, FiniteSets, TLC

\* ---------------------------------------------------------------- bounds
\* the clock stops advancing here (6 s), past every deadline of the code
MaxTime == 12
\* longest match list the index returns in the model
MaxMatches == 2
\* longest match list that is re-ranked on its own
MaxRankLen == 4
\* most texts handed to one embed_and_store call (three batches)
MaxTexts == 21
\* most ingestions that follow one another on the same index
MaxCalls == 2
\* most texts of all ingestions together when one follows another
MaxReTexts == 2
\* most items in the dataset of one crawl
MaxItems == 2
\* longest match list the timeout handler is given on its own
MaxLate == 4

\* ------------------------------------------------------ program constants
\* all durations in ticks of 0.5 s
TOTAL_BUDGET == 9
FETCH_TIMEOUT == 3
MIN_CORE_TIME == 2
LLM_SKIP_MARK == 6
\* scores in percent
LOW_SCORE == 35
\* boost factors, scaled by 10 (1.1 and 1.0)
RECENT_BOOST == 11
NO_BOOST == 10
TOP_N == 3
WIDGET_MAX_REFS == 3
FALLBACK_MAX_MATCHES == 3
MIN_CONTENT_LEN == 50
PREVIEW_LEN == 200

\* vector_store.py 69: batch_size
BATCH_SIZE == 10
\* vector_store.py 79: max_retries
MAX_RETRIES == 5
\* vector_store.py 87: the first wait after a rate limit, in seconds
BACKOFF_BASE == 5
\* vector_store.py 124: the pause after each upsert, in seconds
BATCH_PAUSE == 1

\* ------------------------------------------------------------ python bits
\* a or b on strings
Or(a, b) == IF a # "" THEN a ELSE b

Min(a, b) == IF a < b THEN a ELSE b

\* seq[:n]
Take(seq, n) == SubSeq(seq, 1, Min(n, Len(seq)))

\* sequences over S without repetition, of length at most n
RECURSIVE InjSeqs(_, _)
InjSeqs(S, n) ==
    IF n = 0 THEN {<<>>}
    ELSE LET shorter == InjSeqs(S, n - 1)
             longest == {t \in shorter : Len(t) = n - 1}
         IN  shorter \cup
             {Append(p[1], p[2]) :
                 p \in {q \in longest \X S :
                          \A i \in 1..Len(q[1]) : q[1][i] # q[2]}}

\* ------------------------------------------------------------------ data
\* A retrieval match (Document, score) as similarity_search_with_score
\* builds it: metadata keys source_id / source_url ("NONE" = key absent),
\* recent = (current_time - unix_timestamp < 90 days), page_content by its
\* stripped length and whether it holds the placeholder text.
MatchPool ==
    { [source_id |-> "101", source_url |-> "u101", score |-> 20,
       recent |-> TRUE, len |-> 300, placeholder |-> FALSE],
      [source_id |-> "102", source_url |-> "u102", score |-> 50,
       recent |-> FALSE, len |-> 50, placeholder |-> FALSE],
      [source_id |-> "101", source_url |-> "u101b", score |-> 34,
       recent |-> TRUE, len |-> 10, placeholder |-> FALSE],
      [source_id |-> "NONE", source_url |-> "u9", score |-> 35,
       recent |-> FALSE, len |-> 60, placeholder |-> TRUE] }

\* the match lists the index may answer with
ResultLists == InjSeqs(MatchPool, MaxMatches)

\* the exceptions the external calls raise
AdapterErrors == {"ValueError"}
SearchErrors == {"SearchError"}
ModelErrors == {"ModelError", "ParseError"}

\* source references as the model may cite them
ModelRefs == {<<>>, <<[prefix |-> "Ticket #", body |-> "101"]>>}

\* a citation list of the model that repeats a source and names four
RepeatedRefs ==
    <<[prefix |-> "Ticket #", body |-> "101"],
      [prefix |-> "Ticket #", body |-> "101"],
      [prefix |-> "Ticket #", body |-> "102"],
      [prefix |-> "Ticket #", body |-> "103"]>>

\* the draft text of a model answer: does it open with the marker
\* "UNCERTAIN: ..." or not
ModelDrafts == {[src |-> "model", uncertain |-> u, err |-> "none"] :
                    u \in BOOLEAN}

\* what chain.ainvoke may parse out of the model's answer: JsonOutputParser
\* hands back the JSON object as it is, with or without each key
ParsedOutputs ==
    {[suggested_draft |-> d, confidence_score |-> c, source_references |-> r] :
        d \in ModelDrafts, c \in {20, 95}, r \in ModelRefs}
    \cup {[suggested_draft |-> d, confidence_score |-> 95] : d \in ModelDrafts}
    \cup {[suggested_draft |-> d, source_references |-> <<>>] :
            d \in {x \in ModelDrafts : x.uncertain}}
    \cup {[confidence_score |-> 95, source_references |-> <<>>]}
    \cup {[suggested_draft |-> [src |-> "model", uncertain |-> FALSE,
                                err |-> "none"],
           confidence_score |-> 150, source_references |-> RepeatedRefs],
          [suggested_draft |-> [src |-> "model", uncertain |-> FALSE,
                                err |-> "none"],
           confidence_score |-> -5,
           source_references |-> <<[prefix |-> "Ticket #", body |-> "101"]>>]}

\* get_order_status answers: a list of orders, never an exception
OrderStatuses == {"no_orders", "orders"}

\* -------------------------------------------- ReasoningEngine, pure parts
\* variant: the age of the match is not looked at
BoostedWithoutRecency(m) == m.score * NO_BOOST

\* score * boost, scaled by 10 (reasoning_engine.py 110-116)
Boosted(m) == m.score * (IF m.recent THEN RECENT_BOOST ELSE NO_BOOST)

\* list.sort(key=boosted, reverse=True): stable, descending
RECURSIVE InsertDesc(_, _)
InsertDesc(sorted, m) ==
    IF sorted = <<>> THEN <<m>>
    ELSE IF Boosted(Head(sorted)) >= Boosted(m)
         THEN <<Head(sorted)>> \o InsertDesc(Tail(sorted), m)
         ELSE <<m>> \o sorted

RECURSIVE SortByBoosted(_)
SortByBoosted(seq) ==
    IF seq = <<>> THEN <<>>
    ELSE InsertDesc(SortByBoosted(SubSeq(seq, 1, Len(seq) - 1)),
                    seq[Len(seq)])

\* refined_results[:3]
Top3(search_results) == Take(SortByBoosted(search_results), TOP_N)

\* variant: the gate looks at the boosted scores
MaxBoostedScore(top_3) ==
    IF top_3 = <<>> THEN 0
    ELSE CHOOSE x \in {Boosted(top_3[i]) \div NO_BOOST : i \in 1..Len(top_3)} :
            \A j \in 1..Len(top_3) : Boosted(top_3[j]) \div NO_BOOST <= x

\* the maximum raw score of the retained matches, 0.0 without matches
MaxRawScore(top_3) ==
    IF top_3 = <<>> THEN 0
    ELSE CHOOSE x \in {top_3[i].score : i \in 1..Len(top_3)} :
            \A j \in 1..Len(top_3) : top_3[j].score <= x

\* doc.metadata.get('source_id', default)
SourceIdOr(m, default) ==
    IF m.source_id = "NONE" THEN default ELSE m.source_id

\* the formatted references of the retained matches (lines 129-137)
RECURSIVE SourceRefsOf(_)
SourceRefsOf(top_3) ==
    IF top_3 = <<>> THEN <<>>
    ELSE LET m == Head(top_3)
             ticket_id == SourceIdOr(m, "Unknown")
             ref == IF m.source_url # "NONE" /\ ticket_id # "Unknown"
                    THEN <<[prefix |-> "Ticket #", body |-> ticket_id]>>
                    ELSE IF m.source_url # "NONE"
                         THEN <<[prefix |-> "", body |-> m.source_url]>>
                         ELSE <<>>
         IN  ref \o SourceRefsOf(Tail(top_3))

\* the context lines "Ticket #<id>: <content>" of the prompt
ContextTexts(top_3) ==
    [i \in 1..Len(top_3) |-> SourceIdOr(top_3[i], "Unknown")]

\* _get_system_prompt: the one branch of the instruction
GetSystemPrompt(max_score) ==
    IF max_score < LOW_SCORE THEN "must_start_uncertain"
    ELSE "use_high_confidence_context"

\* the two prompt segments handed to the model
BuildPrompt(current_ticket_body, search_results, order_status) ==
    LET top_3 == Top3(search_results) IN
    [system |-> GetSystemPrompt(MaxRawScore(top_3)),
     ticket |-> current_ticket_body,
     max_score |-> MaxRawScore(top_3),
     context |-> ContextTexts(top_3),
     orders |-> order_status]

\* the elements of a sequence
Range(seq) == {seq[i] : i \in 1..Len(seq)}

\* list(set(source_refs)): every order of the distinct elements, which one
\* is up to the hash seed of the interpreter
SetToLists(refs) ==
    {l \in InjSeqs(Range(refs), Cardinality(Range(refs))) :
        Len(l) = Cardinality(Range(refs))}

\* dict.get(key) falsy
Falsy(d, key) == key \notin DOMAIN d \/ d[key] = <<>>

\* lines 165-168: what generate_response returns for a parsed answer, the
\* references backfilled as list_of_set when the answer has none
WithBackfill(response, source_refs, list_of_set) ==
    IF Falsy(response, "source_references") /\ source_refs # <<>>
    THEN [k \in DOMAIN response \cup {"source_references"} |->
            IF k = "source_references" THEN list_of_set ELSE response[k]]
    ELSE response

\* variant: the error result keeps the references of the retained matches
SynthesisErrorResultKeepsRefs(e, source_refs) ==
    [suggested_draft |-> [src |-> "error", uncertain |-> FALSE, err |-> e],
     confidence_score |-> 0,
     source_references |-> source_refs]

\* lines 169-174: the result when invocation or parsing raised e
SynthesisErrorResult(e, source_refs) ==
    [suggested_draft |-> [src |-> "error", uncertain |-> FALSE, err |-> e],
     confidence_score |-> 0,
     source_references |-> <<>>]

\* variant: "if not search_results", an empty list is searched again
NeedsSearchWhenFalsy(search_arg) ==
    ~search_arg.given \/ search_arg.value = <<>>

\* line 73: is the index to be queried by generate_response
NeedsSearch(search_arg) == ~search_arg.given

\* ------------------------------------------------------- request inputs
\* two organisations
Orgs == {1, 2}

\* variant: every organisation is given the same namespace
NamespaceShared(org) == "org_1"

\* f"org_{org_id}" (inference.py 152, reasoning_engine.py 75,
\* routers/ingest.py 267, crawler.py 187)
NamespaceOf(org) == IF org = 1 THEN "org_1" ELSE "org_2"

\* the namespaces of the organisations
Namespaces == { NamespaceOf(org) : org \in Orgs }

\* inference.py 93: the org_id of a widget request that names none
DEFAULT_ORG == 1

\* request_body of the widget: present = a non-empty JSON object
NoPayload ==
    [present |-> FALSE, body_text |-> "", excerpt |-> "", subject |-> "",
     customer_is_dict |-> FALSE, customer_email |-> ""]

Payloads ==
    { NoPayload,
      [present |-> TRUE, body_text |-> "", excerpt |-> "payload excerpt",
       subject |-> "", customer_is_dict |-> TRUE,
       customer_email |-> "payload@x"],
      [present |-> TRUE, body_text |-> "", excerpt |-> "", subject |-> "",
       customer_is_dict |-> TRUE, customer_email |-> "payload@x"] }

\* what fetch_ticket answers: None (present = FALSE) or the ticket object
NoTicket ==
    [present |-> FALSE, excerpt |-> "", description |-> "", subject |-> "",
     messages |-> <<>>, customer_is_dict |-> FALSE, customer_email |-> ""]

TicketDatas ==
    { NoTicket,
      [present |-> TRUE, excerpt |-> "fetched excerpt", description |-> "",
       subject |-> "", messages |-> <<>>, customer_is_dict |-> TRUE,
       customer_email |-> "fetched@x"],
      [present |-> TRUE, excerpt |-> "", description |-> "", subject |-> "",
       messages |-> <<[body_text |-> "", body_html |-> "<p>html</p>"]>>,
       customer_is_dict |-> FALSE, customer_email |-> "str(customer)"],
      [present |-> TRUE, excerpt |-> "", description |-> "", subject |-> "",
       messages |-> <<>>, customer_is_dict |-> TRUE,
       customer_email |-> "fetched@x"] }

\* the widget requests of some organisations
WidgetRequestsOf(orgs) ==
    [ticket_id : {"", "t1"}, subject : {"", "subject text"},
     customer_email : {"", "param@x"}, org_id : orgs,
     request_body : Payloads]

\* the /suggest requests of some organisations
SuggestRequestsOf(orgs) ==
    [ticket_id : {"t1"}, ticket_body : {"", "body text"},
     customer_email : {"", "param@x"}, org_id : orgs]

WidgetRequests == WidgetRequestsOf({DEFAULT_ORG})

SuggestRequests == SuggestRequestsOf({DEFAULT_ORG})

\* the adapters get_client_context builds; only GorgiasAdapter has
\* fetch_ticket
Adapters == {"gorgias", "bigcommerce"}
HasFetchTicket(a) == a = "gorgias"

\* ----------------------------------------------------------------- state
VARIABLES
    endpoint,        \* "widget" (gorgias_widget) or "suggest"
    request,         \* the parameters of the request
    pc,              \* where the handler stands
    now,             \* the clock, in ticks
    start_time,      \* gorgias_widget: time.time() at entry
    adapter,         \* the adapter of the organisation, "none" before
    ticket_body,     \* the resolved ticket text
    email,           \* the resolved customer identifier
    deadline,        \* when the running asyncio.wait_for expires
    search_results,  \* gorgias_widget's search_results (line 101)
    results,         \* run_pipeline's results (line 153)
    gr,              \* the frame of generate_response
    prompt,          \* the prompt handed to the model
    synth,           \* how generate_response ended, and with what
    nSearch,         \* similarity searches issued for this request
    search_log,      \* the namespace of every similarity search, in order
    nLLM,            \* model invocations issued for this request
    raised,          \* the exceptions raised while handling the request
    fault,           \* the exception that left the handler, "none" if none
    response         \* what the handler returned

\* the state of one widget or /suggest request
requestVars ==
    <<endpoint, request, pc, now, start_time, adapter, ticket_body, email,
      deadline, search_results, results, gr, prompt, synth, nSearch,
      search_log, nLLM, raised, fault, response>>

\* VectorService.embed_and_store: one call, and the index it writes to
VARIABLES
    texts,           \* the texts handed to the call
    metadatas,       \* their metadata dictionaries
    namespace,       \* the namespace handed to the call
    ipc,             \* where the call stands
    batch_i,         \* i of range(0, len(texts), batch_size)
    attempt,         \* range(max_retries): the attempt of the embedding
    embeddings,      \* the vectors of the batch, [] before
    vectors_to_upsert, \* the items built from the batch
    current_time,    \* int(time.time()) at line 66
    clock,           \* the wall clock, in seconds
    index,           \* the vector index: namespace -> id -> item
    uuid_next,       \* how many uuid4 identifiers were drawn
    embed_log,       \* every embed_documents call, in order
    upsert_log,      \* every index.upsert call, in order
    sleep_log,       \* every time.sleep, in order
    ingest_exc,      \* the exception that left the call, "none" if none
    stored_log,      \* every upsert the index accepted, of all calls
    hits             \* what a similarity search after the call answered

\* the caller of embed_and_store
VARIABLES
    caller,          \* who calls: /ingest/historical, the crawler, other code
    ingest_org,      \* the org_id the caller works for
    report,          \* what the caller answers once the call is over
    calls,           \* how many ingestions were begun
    texts_before     \* how many texts the earlier ingestions were given

callVars == <<caller, ingest_org, report, calls, texts_before>>

ingestVars ==
    <<texts, metadatas, namespace, ipc, batch_i, attempt, embeddings,
      vectors_to_upsert, current_time, clock, index, uuid_next, embed_log,
      upsert_log, sleep_log, ingest_exc, stored_log, hits, callVars>>

\* the re-ranking of generate_response on its own
VARIABLES
    rank_pc,          \* "start", then "sorted"
    rank_results,     \* the (doc, score) list the index answered
    refined_results,  \* the list after the sort of line 119
    rank_system       \* the system instruction built for the list

rankVars == <<rank_pc, rank_results, refined_results, rank_system>>

\* two widget requests handled by one process at the same time
VARIABLES
    frames,           \* the local variables of each gorgias_widget call
    engine,           \* the ReasoningEngine all requests are handed
    wall              \* time.time(), in ticks of half a second

pairVars == <<frames, engine, wall>>

\* CrawlerService.crawl_and_ingest: one call
VARIABLES
    crawl_pc,         \* where the call stands
    crawl_req,        \* start_url, org_id, and whether self.client is set
    content,          \* the text gathered so far, as a list of pieces
    title,            \* the title gathered so far
    crawl_log,        \* every external call of crawl_and_ingest, in order
    crawl_result      \* what crawl_and_ingest returned

crawlVars ==
    <<crawl_pc, crawl_req, content, title, crawl_log, crawl_result>>

\* the asyncio.TimeoutError handler of gorgias_widget on its own
VARIABLES
    late_results,     \* search_results as the handler finds it
    late_response     \* what the handler returned

handlerVars == <<late_results, late_response>>

vars ==
    <<requestVars, ingestVars, rankVars, pairVars, crawlVars, handlerVars>>

\* what a step of one part leaves alone
notRequest == <<ingestVars, rankVars, pairVars, crawlVars, handlerVars>>
notIngest == <<requestVars, rankVars, pairVars, crawlVars, handlerVars>>
notRank == <<requestVars, ingestVars, pairVars, crawlVars, handlerVars>>
notPair == <<requestVars, ingestVars, rankVars, crawlVars, handlerVars>>
notCrawl == <<requestVars, ingestVars, rankVars, pairVars, handlerVars>>
notHandler == <<requestVars, ingestVars, rankVars, pairVars, crawlVars>>

NoFrame ==
    [search_arg |-> [given |-> FALSE, value |-> <<>>],
     search_task |-> "none", orders_task |-> "none",
     search_results |-> <<>>, order_status |-> "none"]

NoResponse == [type |-> "none"]

NoPrompt == [system |-> "none"]

NoSynth == [status |-> "none"]

NoResults == [returned |-> FALSE, value |-> <<>>]

\* the caller has not answered
NoReport == [status |-> "none"]

\* no similarity search was made on the index
NoHits == [namespace |-> "none"]

\* an index without entries
EmptyIndex == [ns \in Namespaces |-> <<>>]

\* no embed_and_store call is running and the index is empty
IngestOff ==
    /\ texts = <<>>
    /\ metadatas = <<>>
    /\ namespace = "none"
    /\ ipc = "off"
    /\ batch_i = 0
    /\ attempt = 0
    /\ embeddings = <<>>
    /\ vectors_to_upsert = <<>>
    /\ current_time = 0
    /\ clock = 0
    /\ index = EmptyIndex
    /\ uuid_next = 0
    /\ embed_log = <<>>
    /\ upsert_log = <<>>
    /\ sleep_log = <<>>
    /\ ingest_exc = "none"
    /\ stored_log = <<>>
    /\ hits = NoHits
    /\ caller = "none"
    /\ ingest_org = 0
    /\ report = NoReport
    /\ calls = 0
    /\ texts_before = 0

\* no list is being re-ranked
RankOff ==
    /\ rank_pc = "off"
    /\ rank_results = <<>>
    /\ refined_results = <<>>
    /\ rank_system = "none"

\* no pair of requests is being handled
PairOff ==
    /\ frames = <<>>
    /\ engine = [vector_service |-> "none"]
    /\ wall = 0

\* no page is being crawled
CrawlOff ==
    /\ crawl_pc = "off"
    /\ crawl_req = [start_url |-> "none"]
    /\ content = <<>>
    /\ title = "none"
    /\ crawl_log = <<>>
    /\ crawl_result = NoReport

\* no timeout handler is looked at on its own
HandlerOff ==
    /\ late_results = <<>>
    /\ late_response = NoResponse

\* the fields of a request before its handler runs
RequestFresh ==
    /\ now = 0
    /\ start_time = 0
    /\ adapter = "none"
    /\ ticket_body = ""
    /\ email = ""
    /\ deadline = 0
    /\ search_results = <<>>
    /\ results = NoResults
    /\ gr = NoFrame
    /\ prompt = NoPrompt
    /\ synth = NoSynth
    /\ nSearch = 0
    /\ search_log = <<>>
    /\ nLLM = 0
    /\ raised = {}
    /\ fault = "none"
    /\ response = NoResponse

\* no request is being handled
RequestOff ==
    /\ endpoint = "none"
    /\ request = [ticket_id |-> ""]
    /\ pc = "off"
    /\ RequestFresh

Init ==
    /\ endpoint \in {"widget", "suggest"}
    /\ request \in IF endpoint = "widget" THEN WidgetRequests
                   ELSE SuggestRequests
    /\ pc = "start"
    /\ RequestFresh
    /\ IngestOff
    /\ RankOff
    /\ PairOff
    /\ CrawlOff
    /\ HandlerOff

\* --------------------------------------------- gorgias_widget, responses
\* every exception the calls of a request raise
ExceptionKinds ==
    AdapterErrors \cup SearchErrors \cup ModelErrors
        \cup {"KeyError", "TimeoutError"}

\* variant: the outer handler takes the errors of the external calls only
CaughtByOuterNarrow(e) ==
    e \in AdapterErrors \cup SearchErrors \cup ModelErrors

\* line 219, except Exception: which exceptions the outer handler takes
CaughtByOuter(e) == e \in ExceptionKinds

\* line 222
ErrorMessage(e) == [type |-> "text", text |-> [tier |-> "error", err |-> e]]

\* lines 137-140
NoTicketDataMessage == [type |-> "text", text |-> [tier |-> "no_ticket_data"]]

\* line 201
NotFoundMessage == [type |-> "text", text |-> [tier |-> "not_found"]]

\* line 207: a match the fallback lists
Usable(m) == ~(m.placeholder \/ m.len < MIN_CONTENT_LEN)

\* line 210: one entry of the fallback answer
FallbackEntry(m) ==
    [tid |-> SourceIdOr(m, "?"), score |-> m.score,
     preview |-> Min(m.len, PREVIEW_LEN)]

\* variant: every usable match is listed
FallbackMatchesUnbounded(found) ==
    LET valid == SelectSeq(found, Usable)
    IN  [i \in 1..Len(valid) |-> FallbackEntry(valid[i])]

\* lines 203-212
FallbackMatches(found) ==
    LET valid == Take(SelectSeq(found, Usable), FALLBACK_MAX_MATCHES)
    IN  [i \in 1..Len(valid) |-> FallbackEntry(valid[i])]

\* lines 197-217: the handler of asyncio.TimeoutError
TimeoutHandler(found) ==
    IF found = <<>> THEN NotFoundMessage
    ELSE [type |-> "text",
          text |-> [tier |-> "search_results",
                    matches |-> FallbackMatches(found)]]

\* s.replace("Ticket #", "#")
ShortRef(s) ==
    [prefix |-> IF s.prefix = "Ticket #" THEN "#" ELSE s.prefix,
     body |-> s.body]

\* line 187
ConfidenceEmoji(confidence) ==
    IF confidence >= 60 THEN "green"
    ELSE IF confidence >= LOW_SCORE THEN "yellow" ELSE "red"

\* lines 178-192, for a result that has its draft
SmartAssistMessage(result) ==
    LET confidence == IF "confidence_score" \in DOMAIN result
                      THEN result.confidence_score ELSE 0
        sources == IF "source_references" \in DOMAIN result
                   THEN result.source_references ELSE <<>>
        shown == Take(sources, WIDGET_MAX_REFS)
    IN  [type |-> "text",
         text |-> [tier |-> "smart_assist",
                   emoji |-> ConfidenceEmoji(confidence),
                   confidence |-> confidence,
                   draft |-> result.suggested_draft,
                   refs |-> [i \in 1..Len(shown) |-> ShortRef(shown[i])]]]

\* the handler ends: it returns resp, or the exception flt leaves it
Finish(resp, excs, flt) ==
    /\ pc' = "done"
    /\ response' = resp
    /\ raised' = raised \cup excs
    /\ fault' = flt

\* an exception reaches the outer try of gorgias_widget (lines 105, 219)
WidgetRaise(excs, e) ==
    IF CaughtByOuter(e)
    THEN Finish(ErrorMessage(e), excs \cup {e}, "none")
    ELSE Finish(NoResponse, excs \cup {e}, e)

\* asyncio.TimeoutError reaches the inner handler with search_results = sr
WidgetTimeout(sr) == Finish(TimeoutHandler(sr), {"TimeoutError"}, "none")

\* lines 30, 79-84 of generate_suggestion: every exception but its own
\* HTTPException becomes the 500 answer
SuggestRaise(e) ==
    Finish([status |-> 500, detail |-> "Internal Server Error"], {e}, "none")

\* ------------------------------------------------------------- the clock
\* the request waits for an external call
Blocked ==
    \/ pc \in {"adapter", "fetching", "searching", "llm"}
    \/ pc = "gather" /\ "running" \in {gr.search_task, gr.orders_task}

\* an asyncio.wait_for is running
Timed ==
    endpoint = "widget" /\ pc \in {"fetching", "searching", "gather", "llm"}

\* Time passes while the widget request waits, and never past a running
\* timeout.  generate_suggestion reads no clock, so none is kept for it.
Tick ==
    /\ endpoint = "widget"
    /\ Blocked
    /\ now < MaxTime
    /\ Timed => now < deadline
    /\ now' = now + 1
    /\ UNCHANGED <<endpoint, request, pc, start_time, adapter, ticket_body,
                   email, deadline, search_results, results, gr, prompt,
                   synth, nSearch, search_log, nLLM, raised, fault, response>>
    /\ UNCHANGED notRequest

\* ------------------------------------------------------ generate_response
\* lines 72-92: the call starts its two tasks
EnterGenerateResponse(search_arg) ==
    /\ gr' = [search_arg |-> search_arg,
              search_task |-> IF NeedsSearch(search_arg) THEN "running"
                              ELSE "done",
              orders_task |-> "running",
              search_results |-> IF NeedsSearch(search_arg) THEN <<>>
                                 ELSE search_arg.value,
              order_status |-> "none"]
    /\ nSearch' = nSearch + (IF NeedsSearch(search_arg) THEN 1 ELSE 0)
    /\ search_log' = IF NeedsSearch(search_arg)
                     THEN Append(search_log, NamespaceOf(request.org_id))
                     ELSE search_log
    /\ pc' = "gather"

\* the caller of generate_response goes on with its result
\* (inference.py 175-192 for the widget, 77 for /suggest)
ReturnToCaller(result, excs) ==
    IF endpoint = "widget"
    THEN /\ search_results' = results.value
         /\ IF "suggested_draft" \in DOMAIN result
            THEN Finish(SmartAssistMessage(result), excs, "none")
            ELSE WidgetRaise(excs, "KeyError")
    ELSE /\ search_results' = search_results
         /\ Finish([status |-> 200, body |-> result], excs, "none")

\* the similarity search started by generate_response answers
GrSearchReturns(r) ==
    /\ pc = "gather"
    /\ gr.search_task = "running"
    /\ Timed => now <= deadline
    /\ gr' = [gr EXCEPT !.search_task = "done", !.search_results = r]
    /\ UNCHANGED <<endpoint, request, pc, now, start_time, adapter,
                   ticket_body, email, deadline, search_results, results,
                   prompt, synth, nSearch, search_log, nLLM, raised, fault,
                   response>>
    /\ UNCHANGED notRequest

\* ... or raises: asyncio.gather passes the exception on, outside any try
GrSearchRaises(e) ==
    /\ pc = "gather"
    /\ gr.search_task = "running"
    /\ Timed => now <= deadline
    /\ synth' = [status |-> "raised", exc |-> e]
    /\ IF endpoint = "widget" THEN WidgetRaise({}, e) ELSE SuggestRaise(e)
    /\ UNCHANGED <<endpoint, request, now, start_time, adapter, ticket_body,
                   email, deadline, search_results, results, gr, prompt,
                   nSearch, search_log, nLLM>>
    /\ UNCHANGED notRequest

\* get_order_status answers
OrdersReturn(o) ==
    /\ pc = "gather"
    /\ gr.orders_task = "running"
    /\ Timed => now <= deadline
    /\ gr' = [gr EXCEPT !.orders_task = "done", !.order_status = o]
    /\ UNCHANGED <<endpoint, request, pc, now, start_time, adapter,
                   ticket_body, email, deadline, search_results, results,
                   prompt, synth, nSearch, search_log, nLLM, raised, fault,
                   response>>
    /\ UNCHANGED notRequest

\* variant: the model is invoked as soon as the search has answered
InvokeModelBeforeJoin ==
    /\ pc = "gather"
    /\ gr.search_task = "done"
    /\ Timed => now <= deadline
    /\ prompt' = BuildPrompt(ticket_body, gr.search_results, gr.order_status)
    /\ nLLM' = nLLM + 1
    /\ pc' = "llm"
    /\ UNCHANGED <<endpoint, request, now, start_time, adapter, ticket_body,
                   email, deadline, search_results, results, gr, synth,
                   nSearch, search_log, raised, fault, response>>
    /\ UNCHANGED notRequest

\* lines 94-162: both tasks joined, the prompt is built, the model invoked
InvokeModel ==
    /\ pc = "gather"
    /\ gr.search_task = "done"
    /\ gr.orders_task = "done"
    /\ Timed => now <= deadline
    /\ prompt' = BuildPrompt(ticket_body, gr.search_results, gr.order_status)
    /\ nLLM' = nLLM + 1
    /\ pc' = "llm"
    /\ UNCHANGED <<endpoint, request, now, start_time, adapter, ticket_body,
                   email, deadline, search_results, results, gr, synth,
                   nSearch, search_log, raised, fault, response>>
    /\ UNCHANGED notRequest

\* lines 162-168: the chain answers a parsed object
ModelReturns(out) ==
    /\ pc = "llm"
    /\ Timed => now <= deadline
    /\ LET source_refs == SourceRefsOf(Top3(gr.search_results))
       IN  \E list_of_set \in SetToLists(source_refs) :
             LET result == WithBackfill(out, source_refs, list_of_set)
             IN  /\ synth' = [status |-> "returned", result |-> result,
                               parsed |-> out]
                 /\ ReturnToCaller(result, {})
    /\ UNCHANGED <<endpoint, request, now, start_time, adapter, ticket_body,
                   email, deadline, results, gr, prompt, nSearch, search_log,
                   nLLM>>
    /\ UNCHANGED notRequest

\* lines 169-174: invocation or parsing raises
ModelRaises(e) ==
    /\ pc = "llm"
    /\ Timed => now <= deadline
    /\ LET source_refs == SourceRefsOf(Top3(gr.search_results))
           result == SynthesisErrorResult(e, source_refs)
       IN  /\ synth' = [status |-> "returned", result |-> result]
           /\ ReturnToCaller(result, {e})
    /\ UNCHANGED <<endpoint, request, now, start_time, adapter, ticket_body,
                   email, deadline, results, gr, prompt, nSearch, search_log,
                   nLLM>>
    /\ UNCHANGED notRequest

\* ---------------------------------------------------------- gorgias_widget
\* lines 99-106: the budget starts, the parameters are taken, and the
\* adapter is asked for
WidgetEntry ==
    /\ endpoint = "widget"
    /\ pc = "start"
    /\ start_time' = now
    /\ ticket_body' = Or(request.subject, "")
    /\ email' = Or(request.customer_email, "")
    /\ pc' = "adapter"
    /\ UNCHANGED <<endpoint, request, now, adapter, deadline, search_results,
                   results, gr, prompt, synth, nSearch, search_log, nLLM,
                   raised, fault, response>>
    /\ UNCHANGED notRequest

\* lines 110-120: ticket text and customer from the inline payload
ResolvePayload(body, mail, request_body) ==
    IF body = "" /\ request_body.present
    THEN [ticket_body |-> Or(request_body.body_text,
                             Or(request_body.excerpt,
                                Or(request_body.subject, ""))),
          email |-> IF request_body.customer_is_dict /\ mail = ""
                    THEN request_body.customer_email ELSE mail]
    ELSE [ticket_body |-> body, email |-> mail]

\* lines 106-128: get_client_context answers; the payload is resolved and,
\* without ticket text, the ticket is fetched under its own timeout
WidgetContextReturns(a) ==
    /\ endpoint = "widget"
    /\ pc = "adapter"
    /\ adapter' = a
    /\ LET r == ResolvePayload(ticket_body, email, request.request_body)
       IN  /\ ticket_body' = r.ticket_body
           /\ email' = r.email
           /\ IF r.ticket_body = "" /\ request.ticket_id # ""
                 /\ HasFetchTicket(a)
              THEN pc' = "fetching" /\ deadline' = now + FETCH_TIMEOUT
              ELSE pc' = "resolved" /\ deadline' = deadline
    /\ UNCHANGED <<endpoint, request, now, start_time, search_results,
                   results, gr, prompt, synth, nSearch, search_log, nLLM,
                   raised, fault, response>>
    /\ UNCHANGED notRequest

\* get_client_context raises (no integration, bad credentials)
WidgetContextRaises(e) ==
    /\ endpoint = "widget"
    /\ pc = "adapter"
    /\ WidgetRaise({}, e)
    /\ UNCHANGED <<endpoint, request, now, start_time, adapter, ticket_body,
                   email, deadline, search_results, results, gr, prompt,
                   synth, nSearch, search_log, nLLM>>
    /\ UNCHANGED notRequest

\* lines 129-132: fetch_ticket answers in time
WidgetFetchReturns(ticket_data) ==
    /\ endpoint = "widget"
    /\ pc = "fetching"
    /\ now <= deadline
    /\ IF ticket_data.present
       THEN /\ ticket_body' = Or(ticket_data.excerpt,
                                 Or(ticket_data.subject, ""))
            /\ email' = IF ticket_data.customer_is_dict
                        THEN ticket_data.customer_email ELSE ""
       ELSE UNCHANGED <<ticket_body, email>>
    /\ pc' = "resolved"
    /\ UNCHANGED <<endpoint, request, now, start_time, adapter, deadline,
                   search_results, results, gr, prompt, synth, nSearch,
                   search_log, nLLM, raised, fault, response>>
    /\ UNCHANGED notRequest

\* variant: the timeout of the fetch is not caught by line 133 and ends the
\* request in the outer handler
WidgetFetchTimeoutFatal ==
    /\ endpoint = "widget"
    /\ pc = "fetching"
    /\ now >= deadline
    /\ WidgetRaise({}, "TimeoutError")
    /\ UNCHANGED <<endpoint, request, now, start_time, adapter, ticket_body,
                   email, deadline, search_results, results, gr, prompt,
                   synth, nSearch, search_log, nLLM>>
    /\ UNCHANGED notRequest

\* lines 133-134: the fetch exceeds 1.5 s
WidgetFetchTimeout ==
    /\ endpoint = "widget"
    /\ pc = "fetching"
    /\ now >= deadline
    /\ pc' = "resolved"
    /\ raised' = raised \cup {"TimeoutError"}
    /\ UNCHANGED <<endpoint, request, now, start_time, adapter, ticket_body,
                   email, deadline, search_results, results, gr, prompt,
                   synth, nSearch, search_log, nLLM, fault, response>>
    /\ UNCHANGED notRequest

\* variant: the time already spent is not subtracted
RemainingForCoreIgnoresElapsed == TOTAL_BUDGET

\* line 145
RemainingForCore == TOTAL_BUDGET - (now - start_time)

\* lines 136-140: no ticket text at all
NoTicketText ==
    /\ endpoint = "widget"
    /\ pc = "resolved"
    /\ ticket_body = ""
    /\ Finish(NoTicketDataMessage, {}, "none")
    /\ UNCHANGED <<endpoint, request, now, start_time, adapter, ticket_body,
                   email, deadline, search_results, results, gr, prompt,
                   synth, nSearch, search_log, nLLM>>
    /\ UNCHANGED notRequest

\* variant: the budget is looked at before the ticket text
BudgetExhaustedBeforeTextCheck ==
    /\ endpoint = "widget"
    /\ pc = "resolved"
    /\ RemainingForCore <= MIN_CORE_TIME
    /\ WidgetTimeout(search_results)
    /\ UNCHANGED <<endpoint, request, now, start_time, adapter, ticket_body,
                   email, deadline, search_results, results, gr, prompt,
                   synth, nSearch, search_log, nLLM>>
    /\ UNCHANGED notRequest

\* lines 145-147: too little of the budget is left
BudgetExhausted ==
    /\ endpoint = "widget"
    /\ pc = "resolved"
    /\ ticket_body # ""
    /\ RemainingForCore <= MIN_CORE_TIME
    /\ WidgetTimeout(search_results)
    /\ UNCHANGED <<endpoint, request, now, start_time, adapter, ticket_body,
                   email, deadline, search_results, results, gr, prompt,
                   synth, nSearch, search_log, nLLM>>
    /\ UNCHANGED notRequest

\* lines 150-158, 174: the pipeline starts under one timeout; its first
\* step is the similarity search
StartPipeline ==
    /\ endpoint = "widget"
    /\ pc = "resolved"
    /\ ticket_body # ""
    /\ RemainingForCore > MIN_CORE_TIME
    /\ deadline' = now + RemainingForCore
    /\ nSearch' = nSearch + 1
    /\ search_log' = Append(search_log, NamespaceOf(request.org_id))
    /\ pc' = "searching"
    /\ UNCHANGED <<endpoint, request, now, start_time, adapter, ticket_body,
                   email, search_results, results, gr, prompt, synth, nLLM,
                   raised, fault, response>>
    /\ UNCHANGED notRequest

\* lines 161-171: the search answers before the 3.0 s mark; synthesis is
\* called with the results
SearchReturnsInTime(r) ==
    /\ endpoint = "widget"
    /\ pc = "searching"
    /\ now <= deadline
    /\ ~(now - start_time > LLM_SKIP_MARK)
    /\ results' = [returned |-> TRUE, value |-> r]
    /\ EnterGenerateResponse([given |-> TRUE, value |-> r])
    /\ UNCHANGED <<endpoint, request, now, start_time, adapter, ticket_body,
                   email, deadline, search_results, prompt, synth, nLLM,
                   raised, fault, response>>
    /\ UNCHANGED notRequest

\* variant: the late results are not copied into search_results before the
\* fallback is taken
SearchReturnsLateDropsResults(r) ==
    /\ endpoint = "widget"
    /\ pc = "searching"
    /\ now <= deadline
    /\ now - start_time > LLM_SKIP_MARK
    /\ results' = [returned |-> TRUE, value |-> r]
    /\ WidgetTimeout(search_results)
    /\ UNCHANGED <<endpoint, request, now, start_time, adapter, ticket_body,
                   email, deadline, search_results, gr, prompt, synth,
                   nSearch, search_log, nLLM>>
    /\ UNCHANGED notRequest

\* lines 161-162, 175, 193-195: the search answers after the mark; the
\* pipeline returns without synthesis and the fallback is taken
SearchReturnsLate(r) ==
    /\ endpoint = "widget"
    /\ pc = "searching"
    /\ now <= deadline
    /\ now - start_time > LLM_SKIP_MARK
    /\ results' = [returned |-> TRUE, value |-> r]
    /\ search_results' = r
    /\ WidgetTimeout(r)
    /\ UNCHANGED <<endpoint, request, now, start_time, adapter, ticket_body,
                   email, deadline, gr, prompt, synth, nSearch, search_log,
                   nLLM>>
    /\ UNCHANGED notRequest

\* the embedding provider or the index raises during the widget's search
SearchRaises(e) ==
    /\ endpoint = "widget"
    /\ pc = "searching"
    /\ now <= deadline
    /\ WidgetRaise({}, e)
    /\ UNCHANGED <<endpoint, request, now, start_time, adapter, ticket_body,
                   email, deadline, search_results, results, gr, prompt,
                   synth, nSearch, search_log, nLLM>>
    /\ UNCHANGED notRequest

\* variant: the timeout answers and the pipeline goes on where it waits
PipelineTimeoutKeepsRunning ==
    /\ endpoint = "widget"
    /\ pc \in {"searching", "gather", "llm"}
    /\ now >= deadline
    /\ response = NoResponse
    /\ response' = TimeoutHandler(search_results)
    /\ raised' = raised \cup {"TimeoutError"}
    /\ UNCHANGED <<endpoint, request, pc, now, start_time, adapter,
                   ticket_body, email, deadline, search_results, results, gr,
                   prompt, synth, nSearch, search_log, nLLM, fault>>
    /\ UNCHANGED notRequest

\* line 174: the timeout over run_pipeline fires; the pipeline is
\* cancelled where it waits and line 175 is never reached
PipelineTimeout ==
    /\ endpoint = "widget"
    /\ pc \in {"searching", "gather", "llm"}
    /\ now >= deadline
    /\ WidgetTimeout(search_results)
    /\ UNCHANGED <<endpoint, request, now, start_time, adapter, ticket_body,
                   email, deadline, search_results, results, gr, prompt,
                   synth, nSearch, search_log, nLLM>>
    /\ UNCHANGED notRequest

\* ----------------------------------------------------- generate_suggestion
\* line 32: the adapter is asked for
SuggestEntry ==
    /\ endpoint = "suggest"
    /\ pc = "start"
    /\ pc' = "adapter"
    /\ UNCHANGED <<endpoint, request, now, start_time, adapter, ticket_body,
                   email, deadline, search_results, results, gr, prompt,
                   synth, nSearch, search_log, nLLM, raised, fault, response>>
    /\ UNCHANGED notRequest

\* lines 40-62: ticket text and customer from the fetched ticket
Hydrate(body, mail, ticket_data) ==
    IF ~ticket_data.present THEN [ticket_body |-> body, email |-> mail]
    ELSE LET first == Or(ticket_data.excerpt,
                         Or(ticket_data.description,
                            Or(ticket_data.subject, "")))
             text == IF ticket_data.messages # <<>> /\ first = ""
                     THEN Or(ticket_data.messages[1].body_text,
                             ticket_data.messages[1].body_html)
                     ELSE first
         IN  [ticket_body |-> IF body = "" THEN text ELSE body,
              email |-> IF mail = "" THEN ticket_data.customer_email
                        ELSE mail]

\* variant: generate_response is called whatever the ticket text is
SuggestProceedUnchecked(body, mail) ==
    /\ ticket_body' = body
    /\ email' = mail
    /\ EnterGenerateResponse([given |-> FALSE, value |-> <<>>])
    /\ UNCHANGED <<raised, fault, response>>

\* lines 64-75: without ticket text the 400 answer, else synthesis, which
\* runs its own similarity search
SuggestProceed(body, mail) ==
    /\ ticket_body' = body
    /\ email' = mail
    /\ IF body = ""
       THEN /\ Finish([status |-> 400, detail |-> "Ticket body is required"],
                      {"HTTPException"}, "none")
            /\ UNCHANGED <<gr, nSearch, search_log>>
       ELSE /\ EnterGenerateResponse([given |-> FALSE, value |-> <<>>])
            /\ UNCHANGED <<raised, fault, response>>

\* lines 32-39: get_client_context answers; a ticket lacking text or
\* customer is fetched when the adapter can
SuggestContextReturns(a) ==
    /\ endpoint = "suggest"
    /\ pc = "adapter"
    /\ adapter' = a
    /\ IF (request.ticket_body = "" \/ request.customer_email = "")
          /\ HasFetchTicket(a)
       THEN /\ pc' = "fetching"
            /\ ticket_body' = request.ticket_body
            /\ email' = request.customer_email
            /\ UNCHANGED <<gr, nSearch, search_log, raised, fault, response>>
       ELSE SuggestProceed(request.ticket_body, request.customer_email)
    /\ UNCHANGED <<endpoint, request, now, start_time, deadline,
                   search_results, results, prompt, synth, nLLM>>
    /\ UNCHANGED notRequest

\* get_client_context raises
SuggestContextRaises(e) ==
    /\ endpoint = "suggest"
    /\ pc = "adapter"
    /\ SuggestRaise(e)
    /\ UNCHANGED <<endpoint, request, now, start_time, adapter, ticket_body,
                   email, deadline, search_results, results, gr, prompt,
                   synth, nSearch, search_log, nLLM>>
    /\ UNCHANGED notRequest

\* lines 39-75: fetch_ticket answers
SuggestFetchReturns(ticket_data) ==
    /\ endpoint = "suggest"
    /\ pc = "fetching"
    /\ LET h == Hydrate(ticket_body, email, ticket_data)
       IN  SuggestProceed(h.ticket_body, h.email)
    /\ UNCHANGED <<endpoint, request, now, start_time, adapter, deadline,
                   search_results, results, prompt, synth, nLLM>>
    /\ UNCHANGED notRequest

\* ------------------------------------------------------------ the system
Next ==
    \/ Tick
    \/ WidgetEntry
    \/ \E a \in Adapters : WidgetContextReturns(a)
    \/ \E e \in AdapterErrors : WidgetContextRaises(e)
    \/ \E td \in TicketDatas : WidgetFetchReturns(td)
    \/ WidgetFetchTimeout
    \/ NoTicketText
    \/ BudgetExhausted
    \/ StartPipeline
    \/ \E r \in ResultLists : SearchReturnsInTime(r)
    \/ \E r \in ResultLists : SearchReturnsLate(r)
    \/ \E e \in SearchErrors : SearchRaises(e)
    \/ PipelineTimeout
    \/ \E r \in ResultLists : GrSearchReturns(r)
    \/ \E e \in SearchErrors : GrSearchRaises(e)
    \/ \E o \in OrderStatuses : OrdersReturn(o)
    \/ InvokeModel
    \/ \E out \in ParsedOutputs : ModelReturns(out)
    \/ \E e \in ModelErrors : ModelRaises(e)
    \/ SuggestEntry
    \/ \E a \in Adapters : SuggestContextReturns(a)
    \/ \E e \in AdapterErrors : SuggestContextRaises(e)
    \/ \E td \in TicketDatas : SuggestFetchReturns(td)

Spec == Init /\ [][Next]_vars

\* ------------------------------------------- the re-ranking on its own
\* matches with equal raw scores and different ages, a raw score of 0.0
\* among them, one older match whose raw score equals a boosted one, and
\* matches around the 0.35 gate: recent ones below it whose boosted scores
\* are above it, and older ones at it and just above it
RankPool ==
    { [source_id |-> "n40", source_url |-> "NONE", score |-> 40,
       recent |-> TRUE, len |-> 100, placeholder |-> FALSE],
      [source_id |-> "o40", source_url |-> "NONE", score |-> 40,
       recent |-> FALSE, len |-> 100, placeholder |-> FALSE],
      [source_id |-> "n0", source_url |-> "NONE", score |-> 0,
       recent |-> TRUE, len |-> 100, placeholder |-> FALSE],
      [source_id |-> "o0", source_url |-> "NONE", score |-> 0,
       recent |-> FALSE, len |-> 100, placeholder |-> FALSE],
      [source_id |-> "o44", source_url |-> "NONE", score |-> 44,
       recent |-> FALSE, len |-> 100, placeholder |-> FALSE],
      [source_id |-> "n100", source_url |-> "NONE", score |-> 100,
       recent |-> TRUE, len |-> 100, placeholder |-> FALSE],
      [source_id |-> "n33", source_url |-> "NONE", score |-> 33,
       recent |-> TRUE, len |-> 100, placeholder |-> FALSE],
      [source_id |-> "n34", source_url |-> "NONE", score |-> 34,
       recent |-> TRUE, len |-> 100, placeholder |-> FALSE],
      [source_id |-> "n34b", source_url |-> "NONE", score |-> 34,
       recent |-> TRUE, len |-> 100, placeholder |-> FALSE],
      [source_id |-> "o35", source_url |-> "NONE", score |-> 35,
       recent |-> FALSE, len |-> 100, placeholder |-> FALSE],
      [source_id |-> "o36", source_url |-> "NONE", score |-> 36,
       recent |-> FALSE, len |-> 100, placeholder |-> FALSE] }

InitRank ==
    /\ RequestOff
    /\ IngestOff
    /\ PairOff
    /\ CrawlOff
    /\ HandlerOff
    /\ rank_pc = "start"
    /\ rank_results \in InjSeqs(RankPool, MaxRankLen)
    /\ refined_results = <<>>
    /\ rank_system = "none"

\* reasoning_engine.py 107-144: the boosted scores are computed, the list
\* is sorted by them, and the system instruction is built from the
\* maximum raw score of its first three
Rerank ==
    /\ rank_pc = "start"
    /\ refined_results' = SortByBoosted(rank_results)
    /\ rank_system' = GetSystemPrompt(MaxRawScore(Top3(rank_results)))
    /\ rank_pc' = "sorted"
    /\ UNCHANGED rank_results
    /\ UNCHANGED notRank

NextRank == Rerank

SpecRank == InitRank /\ [][NextRank]_vars

\* ------------------------------------------ VectorService.embed_and_store
\* the messages of the exceptions embed_documents raises in the model
EmbedErrors == {"Error code: 429 - RateLimitReached", "Connection error."}

\* vector_store.py 86: "429" in str(e) or "RateLimit" in str(e)
IsRateLimit(e) == e \in {"Error code: 429 - RateLimitReached"}

\* 2 ** n
RECURSIVE Pow2(_)
Pow2(n) == IF n = 0 THEN 1 ELSE 2 * Pow2(n - 1)

\* variant: the wait grows by the base instead of doubling
WaitTimeLinear(a) == (a + 1) * BACKOFF_BASE

\* vector_store.py 87: wait_time = (2 ** attempt) * 5
WaitTime(a) == Pow2(a) * BACKOFF_BASE

\* the metadata lists of the callers: a source_id per item (routers/ingest.py
\* 255, crawler.py 180), the same source_ids again in every batch, or none
MetadataLists(n) ==
    { [k \in 1..n |-> [has_source_id |-> TRUE, source_id |-> k]],
      [k \in 1..n |-> [has_source_id |-> TRUE,
                       source_id |-> ((k - 1) % BATCH_SIZE) + 1]],
      [k \in 1..n |-> [has_source_id |-> FALSE, source_id |-> 0]] }

\* the text at position k of the input stands for itself
TextList(n) == [k \in 1..n |-> k]

\* list[a : b] with 0-based bounds
Slice(list, a, b) ==
    [k \in 1..(Min(b, Len(list)) - Min(a, Len(list))) |-> list[a + k]]

\* variant: every batch takes the texts from the start of the list
BatchTextsFromStart == Slice(texts, 0, BATCH_SIZE)

\* vector_store.py 75
BatchTexts == Slice(texts, batch_i, batch_i + BATCH_SIZE)

\* vector_store.py 76
BatchMetadatas == Slice(metadatas, batch_i, batch_i + BATCH_SIZE)

\* the vector the provider computes for a text
VectorOf(t) == [of |-> t]

\* variant: the time is read again for every item
FullMetadataStampedLate(meta, t) ==
    [unix_timestamp |-> clock, text |-> t] @@ meta

\* vector_store.py 102-105: meta.copy() with the two keys set
FullMetadata(meta, t) == [unix_timestamp |-> current_time, text |-> t] @@ meta

\* variant: every item gets a fresh identifier
ItemIdAlwaysFresh(meta, j) == [kind |-> "uuid4", n |-> uuid_next + j]

\* vector_store.py 108: str(full_metadata.get('source_id', uuid.uuid4()));
\* j counts from 1, the uuid4 of item j is the j-th one drawn for the batch
ItemId(meta, j) ==
    IF meta.has_source_id
    THEN [kind |-> "source_id", n |-> meta.source_id]
    ELSE [kind |-> "uuid4", n |-> uuid_next + j]

\* vector_store.py 99-114: zip stops at the shortest of the three lists
VectorsToUpsert(vectors) ==
    [j \in 1..Min(Len(BatchTexts), Min(Len(BatchMetadatas), Len(vectors))) |->
        [id |-> ItemId(BatchMetadatas[j], j),
         values |-> vectors[j],
         metadata |-> FullMetadata(BatchMetadatas[j], BatchTexts[j])]]

\* index.upsert: every item replaces the entry of its id, the last item
\* of a request wins
Upserted(entries, items) ==
    LET ids == { items[j].id : j \in 1..Len(items) }
        last(x) == CHOOSE j \in 1..Len(items) :
                      /\ items[j].id = x
                      /\ \A k \in 1..Len(items) : items[k].id = x => k <= j
    IN  [x \in (DOMAIN entries) \cup ids |->
            IF x \in ids THEN items[last(x)] ELSE entries[x]]

\* the callers: ingest_historical_tickets, CrawlerService.crawl_and_ingest,
\* and any other code that calls the method
Callers == {"historical", "crawler", "direct"}

\* routers/ingest.py 266, crawler.py 170: the two services call only with
\* at least one text
TextCounts(who, most) == { n \in 0..most : who = "direct" \/ n >= 1 }

InitIngest ==
    /\ RequestOff
    /\ RankOff
    /\ PairOff
    /\ CrawlOff
    /\ HandlerOff
    /\ caller \in Callers
    /\ \E n \in TextCounts(caller, MaxTexts) :
          /\ texts = TextList(n)
          /\ metadatas \in MetadataLists(n)
    /\ ingest_org \in Orgs
    /\ namespace = NamespaceOf(ingest_org)
    /\ report = NoReport
    /\ calls = 1
    /\ texts_before = 0
    /\ ipc = "start"
    /\ batch_i = 0
    /\ attempt = 0
    /\ embeddings = <<>>
    /\ vectors_to_upsert = <<>>
    /\ current_time = 0
    /\ clock = 1000
    /\ index = EmptyIndex
    /\ uuid_next = 0
    /\ embed_log = <<>>
    /\ upsert_log = <<>>
    /\ sleep_log = <<>>
    /\ ingest_exc = "none"
    /\ stored_log = <<>>
    /\ hits = NoHits

\* vector_store.py 74-79: the next turn of the batch loop, or the end of it
NextBatch ==
    IF batch_i + BATCH_SIZE < Len(texts)
    THEN /\ batch_i' = batch_i + BATCH_SIZE
         /\ attempt' = 0
         /\ embeddings' = <<>>
         /\ ipc' = "embedding"
    ELSE /\ ipc' = "returned"
         /\ UNCHANGED <<batch_i, attempt, embeddings>>

\* vector_store.py 63-79: nothing to do for no texts; otherwise the time is
\* taken once and the first batch begins
CallEmbedAndStore ==
    /\ ipc = "start"
    /\ IF texts = <<>>
       THEN /\ ipc' = "returned"
            /\ UNCHANGED current_time
       ELSE /\ ipc' = "embedding"
            /\ current_time' = clock
    /\ UNCHANGED <<texts, metadatas, namespace, batch_i, attempt, embeddings,
                   vectors_to_upsert, clock, index, uuid_next, embed_log,
                   upsert_log, sleep_log, ingest_exc>>
    /\ UNCHANGED callVars
    /\ UNCHANGED <<stored_log, hits>>
    /\ UNCHANGED notIngest

\* vector_store.py 83-84, 94, 99-114: the provider answers, the items of
\* the batch are built
EmbedReturns ==
    /\ ipc = "embedding"
    /\ LET vectors == [j \in 1..Len(BatchTexts) |-> VectorOf(BatchTexts[j])]
       IN  /\ embeddings' = vectors
           /\ vectors_to_upsert' = VectorsToUpsert(vectors)
    /\ uuid_next' = uuid_next + Len(BatchTexts)
    /\ embed_log' = Append(embed_log, [batch |-> batch_i, attempt |-> attempt,
                                       texts |-> BatchTexts, outcome |-> "ok"])
    /\ ipc' = "upserting"
    /\ UNCHANGED <<texts, metadatas, namespace, batch_i, attempt,
                   current_time, clock, index, upsert_log, sleep_log,
                   ingest_exc>>
    /\ UNCHANGED callVars
    /\ UNCHANGED <<stored_log, hits>>
    /\ UNCHANGED notIngest

\* variant: after the last attempt the attempts begin again, and nothing
\* is recorded
EmbedRateLimitedStartsOver ==
    /\ ipc = "embedding"
    /\ attempt' = (attempt + 1) % MAX_RETRIES
    /\ UNCHANGED <<texts, metadatas, namespace, ipc, batch_i, embeddings,
                   vectors_to_upsert, current_time, clock, index, uuid_next,
                   embed_log, upsert_log, sleep_log, ingest_exc>>
    /\ UNCHANGED callVars
    /\ UNCHANGED <<stored_log, hits>>
    /\ UNCHANGED notIngest

\* vector_store.py 85-89, 94-96: a rate-limit error is slept off; after the
\* last attempt the batch has no embeddings and is skipped
EmbedRateLimited ==
    /\ ipc = "embedding"
    /\ \E e \in EmbedErrors :
          /\ IsRateLimit(e)
          /\ embed_log' = Append(embed_log,
                 [batch |-> batch_i, attempt |-> attempt,
                  texts |-> BatchTexts, outcome |-> "rate_limit"])
    /\ sleep_log' = Append(sleep_log, [batch |-> batch_i, attempt |-> attempt,
                                       seconds |-> WaitTime(attempt)])
    /\ clock' = clock + WaitTime(attempt)
    /\ IF attempt + 1 < MAX_RETRIES
       THEN /\ attempt' = attempt + 1
            /\ UNCHANGED <<ipc, batch_i, embeddings>>
       ELSE NextBatch
    /\ UNCHANGED <<texts, metadatas, namespace, vectors_to_upsert,
                   current_time, index, uuid_next, upsert_log, ingest_exc>>
    /\ UNCHANGED callVars
    /\ UNCHANGED <<stored_log, hits>>
    /\ UNCHANGED notIngest

\* vector_store.py 85, 90-92: any other error is raised again and leaves
\* embed_and_store
EmbedRaises ==
    /\ ipc = "embedding"
    /\ \E e \in EmbedErrors :
          /\ ~IsRateLimit(e)
          /\ ingest_exc' = e
    /\ embed_log' = Append(embed_log, [batch |-> batch_i, attempt |-> attempt,
                                       texts |-> BatchTexts,
                                       outcome |-> "error"])
    /\ ipc' = "aborted"
    /\ UNCHANGED <<texts, metadatas, namespace, batch_i, attempt, embeddings,
                   vectors_to_upsert, current_time, clock, index, uuid_next,
                   upsert_log, sleep_log>>
    /\ UNCHANGED callVars
    /\ UNCHANGED <<stored_log, hits>>
    /\ UNCHANGED notIngest

\* vector_store.py 117-119, 124: the batch is stored, then the pause
UpsertReturns ==
    /\ ipc = "upserting"
    /\ index' = [index EXCEPT
                    ![namespace] = Upserted(index[namespace], vectors_to_upsert)]
    /\ upsert_log' = Append(upsert_log,
           [batch |-> batch_i, namespace |-> namespace,
            items |-> vectors_to_upsert, outcome |-> "ok"])
    /\ sleep_log' = Append(sleep_log, [batch |-> batch_i, attempt |-> attempt,
                                       seconds |-> BATCH_PAUSE])
    /\ clock' = clock + BATCH_PAUSE
    /\ NextBatch
    /\ UNCHANGED <<texts, metadatas, namespace, vectors_to_upsert,
                   current_time, uuid_next, embed_log, ingest_exc>>
    /\ UNCHANGED callVars
    /\ stored_log' = Append(stored_log,
           [call |-> calls, namespace |-> namespace,
            items |-> vectors_to_upsert])
    /\ UNCHANGED hits
    /\ UNCHANGED notIngest

\* variant: the error of the upsert leaves embed_and_store
UpsertRaisesAborts ==
    /\ ipc = "upserting"
    /\ upsert_log' = Append(upsert_log,
           [batch |-> batch_i, namespace |-> namespace,
            items |-> vectors_to_upsert, outcome |-> "error"])
    /\ ingest_exc' = "Upsert error"
    /\ ipc' = "aborted"
    /\ UNCHANGED <<texts, metadatas, namespace, batch_i, attempt, embeddings,
                   vectors_to_upsert, current_time, clock, index, uuid_next,
                   embed_log, sleep_log>>
    /\ UNCHANGED callVars
    /\ UNCHANGED <<stored_log, hits>>
    /\ UNCHANGED notIngest

\* vector_store.py 117-124: the error of the upsert is printed, then the
\* pause; nothing of the batch is stored
UpsertRaises ==
    /\ ipc = "upserting"
    /\ upsert_log' = Append(upsert_log,
           [batch |-> batch_i, namespace |-> namespace,
            items |-> vectors_to_upsert, outcome |-> "error"])
    /\ sleep_log' = Append(sleep_log, [batch |-> batch_i, attempt |-> attempt,
                                       seconds |-> BATCH_PAUSE])
    /\ clock' = clock + BATCH_PAUSE
    /\ NextBatch
    /\ UNCHANGED <<texts, metadatas, namespace, vectors_to_upsert,
                   current_time, index, uuid_next, embed_log, ingest_exc>>
    /\ UNCHANGED callVars
    /\ UNCHANGED <<stored_log, hits>>
    /\ UNCHANGED notIngest

\* the count a caller puts into its answer (routers/ingest.py 271,
\* crawler.py 190)
ReportedCount == Len(texts)

\* routers/ingest.py 268-273: the message after the call; an exception of
\* the call leaves the handler.  crawler.py 188-194: the chunks after the
\* call; an exception of the call is answered as an error
ReportOf(who) ==
    IF ipc = "returned"
    THEN IF who = "direct"
         THEN [status |-> "returned"]
         ELSE [status |-> "success", count |-> ReportedCount]
    ELSE IF who = "crawler"
         THEN [status |-> "error", message |-> ingest_exc]
         ELSE [status |-> "raised", message |-> ingest_exc]

\* the caller answers after the call
CallerReports ==
    /\ ipc \in {"returned", "aborted"}
    /\ report' = ReportOf(caller)
    /\ ipc' = "reported"
    /\ UNCHANGED <<texts, metadatas, namespace, batch_i, attempt, embeddings,
                   vectors_to_upsert, current_time, clock, index, uuid_next,
                   embed_log, upsert_log, sleep_log, ingest_exc>>
    /\ UNCHANGED <<caller, ingest_org, calls, texts_before>>
    /\ UNCHANGED <<stored_log, hits>>
    /\ UNCHANGED notIngest

\* the texts of a later ingestion: the same items with changed text
LaterTextList(n, v) == [k \in 1..n |-> v * (MaxTexts + 1) + TextList(n)[k]]

\* the same caller ingests again, for either organisation, on the index
\* the earlier ingestions left
NewCall ==
    /\ ipc = "reported"
    /\ calls < MaxCalls
    /\ \E n \in TextCounts(caller, MaxReTexts) :
          /\ n >= 1
          /\ texts_before + Len(texts) + n <= MaxReTexts
          /\ texts' = LaterTextList(n, calls)
          /\ metadatas' \in MetadataLists(n)
    /\ texts_before' = texts_before + Len(texts)
    /\ calls' = calls + 1
    /\ ingest_org' \in Orgs
    /\ namespace' = NamespaceOf(ingest_org')
    /\ ipc' = "start"
    /\ batch_i' = 0
    /\ attempt' = 0
    /\ embeddings' = <<>>
    /\ vectors_to_upsert' = <<>>
    /\ current_time' = 0
    /\ embed_log' = <<>>
    /\ upsert_log' = <<>>
    /\ sleep_log' = <<>>
    /\ ingest_exc' = "none"
    /\ report' = NoReport
    /\ hits' = NoHits
    /\ UNCHANGED <<caller, clock, index, uuid_next>>
    /\ UNCHANGED stored_log
    /\ UNCHANGED notIngest

\* variant: the text stays in the metadata of the document
DocumentOfKeepsText(match) ==
    LET metadata == IF "metadata" \in DOMAIN match THEN match.metadata
                    ELSE <<>>
    IN  [page_content |-> IF "text" \in DOMAIN metadata THEN metadata.text
                          ELSE "",
         metadata |-> metadata]

\* vector_store.py 156-160: the text is popped out of the metadata of the
\* match and becomes the page_content of the Document
DocumentOf(match) ==
    LET metadata == IF "metadata" \in DOMAIN match THEN match.metadata
                    ELSE <<>>
    IN  [page_content |-> IF "text" \in DOMAIN metadata THEN metadata.text
                          ELSE "",
         metadata |-> [key \in (DOMAIN metadata) \ {"text"} |->
                          metadata[key]]]

\* vector_store.py 144-162: similarity_search_with_score on a namespace,
\* once the caller of embed_and_store has answered, with k no smaller than
\* the namespace; every match is turned into a Document on its own, the
\* scores and the order of the matches are left out
SimilaritySearchWithScore(ns) ==
    /\ ipc = "reported"
    /\ hits = NoHits
    /\ hits' = [namespace |-> ns,
                matches |-> [x \in DOMAIN index[ns] |->
                                DocumentOf(index[ns][x])]]
    /\ UNCHANGED <<texts, metadatas, namespace, ipc, batch_i, attempt,
                   embeddings, vectors_to_upsert, current_time, clock, index,
                   uuid_next, embed_log, upsert_log, sleep_log, ingest_exc,
                   stored_log>>
    /\ UNCHANGED callVars
    /\ UNCHANGED notIngest

NextIngest ==
    \/ CallEmbedAndStore
    \/ EmbedReturns
    \/ EmbedRateLimited
    \/ EmbedRaises
    \/ UpsertReturns
    \/ UpsertRaises
    \/ CallerReports
    \/ NewCall
    \/ \E ns \in Namespaces : SimilaritySearchWithScore(ns)

SpecIngest == InitIngest /\ [][NextIngest]_vars

\* a step of embed_and_store itself
EmbedAndStoreStep ==
    \/ CallEmbedAndStore
    \/ EmbedReturns
    \/ EmbedRateLimited
    \/ EmbedRaises
    \/ UpsertReturns
    \/ UpsertRaises

\* one call and the answer of its caller
NextOneCall ==
    \/ EmbedAndStoreStep
    \/ CallerReports

\* embed_and_store is synchronous code: once called it runs on, provided
\* every embed_documents, upsert and sleep comes back, with whatever
\* outcome.  Nothing is assumed about which outcome, nor about the caller.
SpecIngestFair ==
    InitIngest /\ [][NextOneCall]_vars /\ WF_vars(EmbedAndStoreStep)

\* ------------------------------------- requests and ingestions of any org
\* one query, widget or ingestion request of either organisation
InitTenant ==
    \/ /\ endpoint \in {"widget", "suggest"}
       /\ request \in IF endpoint = "widget" THEN WidgetRequestsOf(Orgs)
                      ELSE SuggestRequestsOf(Orgs)
       /\ pc = "start"
       /\ RequestFresh
       /\ IngestOff
       /\ RankOff
       /\ PairOff
       /\ CrawlOff
       /\ HandlerOff
    \/ InitIngest

NextTenant ==
    \/ Next
    \/ NextIngest

SpecTenant == InitTenant /\ [][NextTenant]_vars

\* ------------------------------------------- two widget requests at once
\* the requests in flight
Rids == {1, 2}

\* dependencies.py 48-58, reasoning_engine.py 18-30: the one ReasoningEngine
\* built for the process, with the fields its constructor sets
EngineSingleton ==
    [vector_service |-> "VectorService", llm |-> "llm",
     parser |-> "JsonOutputParser"]

\* what each request asks and what the external services answer to it:
\* the subject parameter as ticket text, the matches of its search, and the
\* parsed answer of the model
PairInputs ==
    <<[subject |-> "subject one",
       matches |-> <<[source_id |-> "101", source_url |-> "u101",
                      score |-> 20, recent |-> TRUE, len |-> 300,
                      placeholder |-> FALSE]>>,
       parsed |-> [suggested_draft |-> [src |-> "model", uncertain |-> FALSE,
                                        err |-> "none"],
                   confidence_score |-> 95]],
      [subject |-> "subject two",
       matches |-> <<[source_id |-> "102", source_url |-> "u102",
                      score |-> 50, recent |-> FALSE, len |-> 50,
                      placeholder |-> FALSE]>>,
       parsed |-> [suggested_draft |-> [src |-> "model", uncertain |-> TRUE,
                                        err |-> "none"],
                   confidence_score |-> 20,
                   source_references |-> <<>>]]>>

\* inference.py 89-103: the locals of a call that has not begun; search_at
\* and model_at note after how many ticks the two answers came, -1 = never
NewFrame ==
    [pc |-> "new", start_time |-> 0, deadline |-> 0, ticket_body |-> "",
     search_results |-> <<>>, results |-> NoResults, search_at |-> -1,
     model_at |-> -1, response |-> NoResponse]

InitPair ==
    /\ RequestOff
    /\ IngestOff
    /\ RankOff
    /\ CrawlOff
    /\ HandlerOff
    /\ frames = [r \in Rids |-> NewFrame]
    /\ engine = EngineSingleton
    /\ wall = 0

\* variant: the results of the search are kept in one place for all
\* requests, the one the first request writes
PairResultsShared(r) == frames[1].results.value

\* inference.py 153, 166-171: the results local to run_pipeline of call r
PairResults(r) == frames[r].results.value

\* a call waits for an external answer under its wait_for
PairBlocked(r) == frames[r].pc \in {"searching", "synthesis"}

\* time passes while no handler runs; a timeout fires when it is due
PairTick ==
    /\ wall < MaxTime
    /\ \E r \in Rids : frames[r].pc # "done"
    /\ \A r \in Rids : PairBlocked(r) => wall < frames[r].deadline
    /\ wall' = wall + 1
    /\ UNCHANGED <<frames, engine>>
    /\ UNCHANGED notPair

\* inference.py 99-174 up to the first await: the budget starts, the ticket
\* text comes from the subject parameter, nothing is fetched, the pipeline
\* is started under the remaining budget
PairEntry(r) ==
    /\ frames[r].pc = "new"
    /\ LET started == wall
           remaining_for_core == TOTAL_BUDGET - (wall - started)
       IN  /\ remaining_for_core > MIN_CORE_TIME
           /\ frames' = [frames EXCEPT
                 ![r].pc = "searching",
                 ![r].start_time = started,
                 ![r].ticket_body = PairInputs[r].subject,
                 ![r].search_results = <<>>,
                 ![r].deadline = wall + remaining_for_core]
    /\ UNCHANGED <<engine, wall>>
    /\ UNCHANGED notPair

\* inference.py 153-163, 175, 193-217: the search of call r answers; after
\* the 3.0 s mark the model is skipped and the matches are listed
PairSearchReturns(r) ==
    /\ frames[r].pc = "searching"
    /\ wall <= frames[r].deadline
    /\ LET found == PairInputs[r].matches
       IN  IF wall - frames[r].start_time > LLM_SKIP_MARK
           THEN frames' = [frames EXCEPT
                   ![r].pc = "done",
                   ![r].results = [returned |-> TRUE, value |-> found],
                   ![r].search_at = wall - frames[r].start_time,
                   ![r].search_results = found,
                   ![r].response = TimeoutHandler(found)]
           ELSE frames' = [frames EXCEPT
                   ![r].pc = "synthesis",
                   ![r].results = [returned |-> TRUE, value |-> found],
                   ![r].search_at = wall - frames[r].start_time]
    /\ UNCHANGED <<engine, wall>>
    /\ UNCHANGED notPair

\* inference.py 166-192, reasoning_engine.py 160-168: the model answers
\* call r and the full tier is returned
PairModelReturns(r) ==
    /\ frames[r].pc = "synthesis"
    /\ wall <= frames[r].deadline
    /\ LET source_refs == SourceRefsOf(Top3(PairResults(r)))
       IN  \E list_of_set \in SetToLists(source_refs) :
              frames' = [frames EXCEPT
                 ![r].pc = "done",
                 ![r].model_at = wall - frames[r].start_time,
                 ![r].search_results = PairResults(r),
                 ![r].response =
                    SmartAssistMessage(WithBackfill(PairInputs[r].parsed,
                                                    source_refs,
                                                    list_of_set))]
    /\ UNCHANGED <<engine, wall>>
    /\ UNCHANGED notPair

\* inference.py 174, 197-217: the wait_for of call r runs out
PairTimeout(r) ==
    /\ PairBlocked(r)
    /\ wall >= frames[r].deadline
    /\ frames' = [frames EXCEPT
          ![r].pc = "done",
          ![r].response = TimeoutHandler(frames[r].search_results)]
    /\ UNCHANGED <<engine, wall>>
    /\ UNCHANGED notPair

NextPair ==
    \/ PairTick
    \/ \E r \in Rids : PairEntry(r)
    \/ \E r \in Rids : PairSearchReturns(r)
    \/ \E r \in Rids : PairModelReturns(r)
    \/ \E r \in Rids : PairTimeout(r)

SpecPair == InitPair /\ [][NextPair]_vars

\* ------------------------------------- CrawlerService.crawl_and_ingest
\* A text is a list of pieces, each as long as one chunk may be or made of
\* white space only; the empty string is the empty list.
BlankPiece == "   "

\* the organisations' pages
CrawlUrls == {"https://a.example/help", "https://b.example/faq"}

\* PIIService.scrub on one piece: what matches a pattern is replaced
ScrubPiece(p) == IF p = "mail a@b.c" THEN "mail [EMAIL_REDACTED]" ELSE p

Scrub(text) == [k \in 1..Len(text) |-> ScrubPiece(text[k])]

\* RecursiveCharacterTextSplitter.split_text: chunks of at most chunk_size,
\* stripped, and no chunk of white space only
SplitText(text) == SelectSeq(text, LAMBDA p : p # BlankPiece)

\* the items a dataset of the website-content-crawler may hold; a title of
\* "NONE" is an item without metadata or title
DatasetItemPool ==
    { [markdown |-> <<"FAQ text">>, text |-> <<>>, title |-> "FAQ"],
      [markdown |-> <<>>, text |-> <<"mail a@b.c", "FAQ text">>,
       title |-> "NONE"],
      [markdown |-> <<>>, text |-> <<>>, title |-> "Empty"],
      [markdown |-> <<BlankPiece>>, text |-> <<"FAQ text">>,
       title |-> "Blank"] }

DatasetItems == UNION { [1..n -> DatasetItemPool] : n \in 0..MaxItems }

\* lines 123-129: the texts of the items one after the other, and the
\* title of the first items while the title is unset or the url
RECURSIVE Gather(_, _, _, _)
Gather(items, k, acc, start_url) ==
    IF k > Len(items) THEN acc
    ELSE LET text_content == IF items[k].markdown # <<>>
                             THEN items[k].markdown ELSE items[k].text
         IN  IF text_content = <<>> THEN Gather(items, k + 1, acc, start_url)
             ELSE Gather(items, k + 1,
                         [content |-> acc.content \o text_content,
                          title |-> IF acc.title \in {"NONE", "", start_url}
                                    THEN items[k].title ELSE acc.title],
                         start_url)

\* what the plain GET of the fallback may answer, after the parse
Pages ==
    { [has_main |-> FALSE, text |-> <<>>, has_title |-> FALSE,
       title |-> ""],
      [has_main |-> TRUE, text |-> <<>>, has_title |-> TRUE,
       title |-> "Empty page"],
      [has_main |-> TRUE, text |-> <<"FAQ text">>, has_title |-> FALSE,
       title |-> ""],
      [has_main |-> TRUE, text |-> <<"mail a@b.c", "FAQ text", "FAQ text">>,
       has_title |-> TRUE, title |-> "Help"] }

ApifyErrors == {"ApifyApiError"}
HttpxErrors == {"HTTPStatusError", "ConnectError"}
StoreErrors == {"Connection error."}

\* variant: the chunks are counted from one
ChunkMetadatasFromOne(chunks, req, ttl) ==
    [k \in 1..Len(chunks) |->
        [org_id |-> req.org_id,
         source_id |-> [url |-> req.start_url, chunk |-> k],
         source_type |-> "web_page", source_url |-> req.start_url,
         title |-> ttl, chunk_index |-> k]]

\* lines 176-185: one metadata dictionary for every chunk
ChunkMetadatas(chunks, req, ttl) ==
    [k \in 1..Len(chunks) |->
        [org_id |-> req.org_id,
         source_id |-> [url |-> req.start_url, chunk |-> k - 1],
         source_type |-> "web_page", source_url |-> req.start_url,
         title |-> ttl, chunk_index |-> k - 1]]

\* the embed_and_store calls among the external calls
StoreCalls == SelectSeq(crawl_log, LAMBDA c : c.op = "embed_and_store")

InitCrawl ==
    /\ RequestOff
    /\ IngestOff
    /\ RankOff
    /\ PairOff
    /\ HandlerOff
    /\ crawl_pc = "start"
    /\ crawl_req \in [start_url : CrawlUrls, org_id : Orgs, client : BOOLEAN]
    /\ content = <<>>
    /\ title = crawl_req.start_url
    /\ crawl_log = <<>>
    /\ crawl_result = NoReport

\* crawl_and_ingest returns
CrawlReturn(result) ==
    /\ crawl_result' = result
    /\ crawl_pc' = "done"

\* lines 134-137: the plain GET is sent
StartFallback ==
    /\ crawl_log' = Append(crawl_log, [op |-> "httpx"])
    /\ crawl_pc' = "httpx"
    /\ crawl_result' = crawl_result

\* lines 156-188: the text is scrubbed and split, and the chunks are
\* handed to embed_and_store
ScrubSplitStore(text, ttl) ==
    LET chunks == SplitText(Scrub(text))
    IN  IF chunks = <<>>
        THEN /\ CrawlReturn([status |-> "skipped",
                             reason |-> "Content too short after splitting"])
             /\ crawl_log' = crawl_log
        ELSE /\ crawl_log' =
                  Append(crawl_log,
                         [op |-> "embed_and_store", texts |-> chunks,
                          metadatas |-> ChunkMetadatas(chunks, crawl_req, ttl),
                          namespace |-> NamespaceOf(crawl_req.org_id)])
             /\ crawl_pc' = "storing"
             /\ crawl_result' = crawl_result

\* lines 104-115, 133: with a client the actor is called, else the fallback
CrawlEntry ==
    /\ crawl_pc = "start"
    /\ IF crawl_req.client
       THEN /\ crawl_log' = Append(crawl_log, [op |-> "apify"])
            /\ crawl_pc' = "apify"
            /\ crawl_result' = crawl_result
       ELSE StartFallback
    /\ UNCHANGED <<crawl_req, content, title>>
    /\ UNCHANGED notCrawl

\* lines 115-133: the actor ran and its dataset holds items
ApifyReturns(items) ==
    /\ crawl_pc = "apify"
    /\ LET g == Gather(items, 1, [content |-> content, title |-> title],
                       crawl_req.start_url)
       IN  /\ content' = g.content
           /\ title' = g.title
           /\ IF g.content = <<>> THEN StartFallback
              ELSE ScrubSplitStore(g.content, g.title)
    /\ UNCHANGED crawl_req
    /\ UNCHANGED notCrawl

\* lines 115, 192-194: the actor call or the dataset read raises
ApifyRaises(e) ==
    /\ crawl_pc = "apify"
    /\ CrawlReturn([status |-> "error", message |-> e])
    /\ UNCHANGED <<crawl_req, content, title, crawl_log>>
    /\ UNCHANGED notCrawl

\* lines 137-154: the page is fetched and parsed
HttpxReturns(page) ==
    /\ crawl_pc = "httpx"
    /\ LET got == IF page.has_main THEN page.text ELSE content
           ttl == IF page.has_title THEN page.title ELSE crawl_req.start_url
       IN  /\ content' = got
           /\ title' = ttl
           /\ IF got = <<>>
              THEN /\ CrawlReturn([status |-> "skipped",
                                   reason |-> "No content found"])
                   /\ crawl_log' = crawl_log
              ELSE ScrubSplitStore(got, ttl)
    /\ UNCHANGED crawl_req
    /\ UNCHANGED notCrawl

\* lines 137-138, 192-194: the GET or raise_for_status raises
HttpxRaises(e) ==
    /\ crawl_pc = "httpx"
    /\ CrawlReturn([status |-> "error", message |-> e])
    /\ UNCHANGED <<crawl_req, content, title, crawl_log>>
    /\ UNCHANGED notCrawl

\* lines 188-190: embed_and_store returns
StoreReturns ==
    /\ crawl_pc = "storing"
    /\ CrawlReturn([status |-> "success", url |-> crawl_req.start_url,
                    chunks_ingested |->
                        Len(crawl_log[Len(crawl_log)].texts)])
    /\ UNCHANGED <<crawl_req, content, title, crawl_log>>
    /\ UNCHANGED notCrawl

\* lines 188, 192-194: embed_and_store raises
StoreRaises(e) ==
    /\ crawl_pc = "storing"
    /\ CrawlReturn([status |-> "error", message |-> e])
    /\ UNCHANGED <<crawl_req, content, title, crawl_log>>
    /\ UNCHANGED notCrawl

NextCrawl ==
    \/ CrawlEntry
    \/ \E items \in DatasetItems : ApifyReturns(items)
    \/ \E e \in ApifyErrors : ApifyRaises(e)
    \/ \E page \in Pages : HttpxReturns(page)
    \/ \E e \in HttpxErrors : HttpxRaises(e)
    \/ StoreReturns
    \/ \E e \in StoreErrors : StoreRaises(e)

SpecCrawl == InitCrawl /\ [][NextCrawl]_vars

\* ---------------------------------- the timeout handler on its own
\* the matches of the request part and two more the fallback can list, one
\* of them one character longer than a preview
LatePool ==
    MatchPool \cup
    { [source_id |-> "103", source_url |-> "u103", score |-> 80,
       recent |-> TRUE, len |-> PREVIEW_LEN + 1, placeholder |-> FALSE],
      [source_id |-> "104", source_url |-> "u104", score |-> 5,
       recent |-> FALSE, len |-> PREVIEW_LEN, placeholder |-> FALSE] }

InitHandler ==
    /\ RequestOff
    /\ IngestOff
    /\ RankOff
    /\ PairOff
    /\ CrawlOff
    /\ late_results \in InjSeqs(LatePool, MaxLate)
    /\ late_response = NoResponse

\* inference.py 197-217: asyncio.TimeoutError is caught and answered from
\* search_results
HandleTimeout ==
    /\ late_response = NoResponse
    /\ late_response' = TimeoutHandler(late_results)
    /\ UNCHANGED late_results
    /\ UNCHANGED notHandler

NextHandler == HandleTimeout

SpecHandler == InitHandler /\ [][NextHandler]_vars

\* ------------------------------------------------------------ properties
ResultKeys == {"suggested_draft", "confidence_score", "source_references"}

\* the widget answered because the timeout over run_pipeline fired while
\* generate_response was running
TimedOutInSynthesis ==
    /\ endpoint = "widget"
    /\ pc = "done"
    /\ results.returned
    /\ gr.orders_task # "none"
    /\ synth.status = "none"

\* C1: when the pipeline timeout fires during synthesis, after the search
\* returned a non-empty list, the widget answers with the search-only tier
\* built from exactly those results, never with the not-found message.
C1_TimeoutReusesResults ==
    (TimedOutInSynthesis /\ results.value # <<>>)
        => response = [type |-> "text",
                       text |-> [tier |-> "search_results",
                                 matches |-> FallbackMatches(results.value)]]

\* C2: gorgias_widget ends with exactly one message {type: text, text: ...}
\* and no exception leaves it, whatever its external calls did.
C2_AlwaysOneMessage ==
    endpoint = "widget" =>
        /\ fault = "none"
        /\ pc # "done" => response = NoResponse
        /\ pc = "done" => /\ DOMAIN response = {"type", "text"}
                          /\ response.type = "text"

\* an exception raised by the formatting of the answer was turned into a
\* message
C2_Witness ==
    /\ endpoint = "widget"
    /\ pc = "done"
    /\ "KeyError" \in raised
    /\ response.type = "text"

\* C3: the time from gorgias_widget's entry to its response never exceeds
\* the total budget plus a tolerance of one tick (0.5 s, which is all the
\* 5.0 s abort of the caller leaves), however long the external calls take.
C3_WithinBudget ==
    (endpoint = "widget" /\ pc = "done")
        => now - start_time <= TOTAL_BUDGET + 1

\* C4: a widget request queries the index at most once; synthesis takes the
\* results already retrieved, an empty list included, and never searches.
C4_SingleSearch ==
    endpoint = "widget" =>
        /\ nSearch <= 1
        /\ gr.orders_task # "none" =>
              /\ gr.search_task = "done"
              /\ gr.search_results = results.value

\* synthesis ran on an empty result list
C4_Witness ==
    /\ endpoint = "widget"
    /\ pc = "done"
    /\ results.returned
    /\ results.value = <<>>
    /\ nLLM = 1
    /\ nSearch = 1

\* C5: when the widget's search returns no matches, the answer is the fixed
\* not-found message, whatever the model would say.
C5_EmptySearchNotFound ==
    (endpoint = "widget" /\ pc = "done" /\ results.returned
        /\ results.value = <<>>)
        => response = NotFoundMessage

\* C6: when the widget's search raises, the answer is the not-found tier or
\* the search-only tier, and no fault reaches the caller.
C6_SearchErrorTier ==
    (endpoint = "widget" /\ pc = "done" /\ raised \cap SearchErrors # {})
        => /\ fault = "none"
           /\ response.text.tier \in {"not_found", "search_results"}

\* C7: with the ticket text resolved, /suggest never answers a failure of
\* search, order lookup or model with the generic 500 fault.
C7_NoGenericFault ==
    (endpoint = "suggest" /\ pc = "done" /\ ticket_body # ""
        /\ gr.orders_task # "none")
        => response.status # 500

\* C8: generate_response never raises and always returns a result with all
\* three fields.
C8_NeverRaisesThreeFields ==
    /\ synth.status # "raised"
    /\ synth.status = "returned" => DOMAIN synth.result = ResultKeys

\* C9: when invocation or parsing raises, the result is the error draft
\* naming the error, confidence 0.0 and no source references, also when the
\* retained matches have source identifiers.
C9_ErrorResult ==
    (synth.status = "returned" /\ raised \cap ModelErrors # {})
        => /\ DOMAIN synth.result = ResultKeys
           /\ synth.result.suggested_draft.src = "error"
           /\ synth.result.suggested_draft.err \in raised \cap ModelErrors
           /\ synth.result.confidence_score = 0
           /\ synth.result.source_references = <<>>

\* the model raised although the retained matches had source identifiers
C9_Witness ==
    /\ synth.status = "returned"
    /\ raised \cap ModelErrors # {}
    /\ SourceRefsOf(Top3(gr.search_results)) # <<>>

\* C10: when the maximum raw score of the retained matches is below 0.35 and
\* synthesis completes, the returned draft begins with the uncertainty
\* marker, whatever the model produced.
C10_LowScoreDraftMarked ==
    (/\ synth.status = "returned"
     /\ raised \cap ModelErrors = {}
     /\ "suggested_draft" \in DOMAIN synth.result
     /\ MaxRawScore(Top3(gr.search_results)) < LOW_SCORE)
        => synth.result.suggested_draft.uncertain

\* C11: when fetch_ticket does not answer within 1.5 s the widget stops
\* waiting, does not answer because of the timeout, keeps ticket text and
\* customer as they were and goes on to the next resolution step.
C11_FetchTimeoutNonFatal ==
    [][(/\ endpoint = "widget"
        /\ pc = "fetching"
        /\ "TimeoutError" \notin raised
        /\ "TimeoutError" \in raised')
          => /\ now - (deadline - FETCH_TIMEOUT) <= FETCH_TIMEOUT
             /\ pc' = "resolved"
             /\ ticket_body' = ticket_body
             /\ email' = email
             /\ response' = NoResponse
             /\ fault' = "none"]_vars

\* the fetch timed out, the customer given as parameter was kept, and the
\* request ended at the next step, the check for ticket text
C11_Witness ==
    /\ endpoint = "widget"
    /\ pc = "done"
    /\ "TimeoutError" \in raised
    /\ nSearch = 0
    /\ ticket_body = ""
    /\ email = "param@x"
    /\ response = NoTicketDataMessage

\* C12: ticket text and customer are resolved in the order parameters,
\* payload, connector fetch: a value once obtained is never replaced by a
\* later source, so a customer_email parameter reaches synthesis.
C12_PriorityKept ==
    [][endpoint = "widget" =>
          /\ ticket_body # "" => ticket_body' = ticket_body
          /\ email # "" => email' = email]_vars

C14_BudgetGate ==
    [][(endpoint = "widget" /\ pc = "resolved" /\ ticket_body # "")
          => IF TOTAL_BUDGET - (now - start_time) <= MIN_CORE_TIME
             THEN /\ pc' = "done"
                  /\ response' = NotFoundMessage
                  /\ nSearch' = 0
                  /\ nLLM' = 0
             ELSE /\ pc' = "searching"
                  /\ nSearch' = 1
                  /\ nLLM' = 0]_vars

\* a request with ticket text was answered without any search
C14_Witness ==
    /\ endpoint = "widget"
    /\ pc = "done"
    /\ ticket_body # ""
    /\ TOTAL_BUDGET - (now - start_time) <= MIN_CORE_TIME
    /\ nSearch = 0
    /\ response = NotFoundMessage

\* C15: when the search answers more than 3.0 s after the start, the model
\* is never invoked and the answer is built in the fallback from the results
\* just retrieved.
C15_LateSearchSkipsModel ==
    [][(/\ endpoint = "widget"
        /\ pc = "searching"
        /\ results'.returned
        /\ now - start_time > LLM_SKIP_MARK)
          => /\ pc' = "done"
             /\ nLLM' = 0
             /\ gr' = NoFrame
             /\ IF results'.value = <<>>
                THEN response' = NotFoundMessage
                ELSE response' =
                       [type |-> "text",
                        text |-> [tier |-> "search_results",
                                  matches |->
                                     FallbackMatches(results'.value)]]]_vars

\* a late search with matches was answered from those matches
C15_Witness ==
    /\ endpoint = "widget"
    /\ pc = "done"
    /\ results.returned
    /\ results.value # <<>>
    /\ gr = NoFrame
    /\ nLLM = 0
    /\ response.text.tier = "search_results"

\* the distinct elements of a sequence in order of first appearance
RECURSIVE DedupFirst(_)
DedupFirst(seq) ==
    IF seq = <<>> THEN <<>>
    ELSE LET rest == DedupFirst(SubSeq(seq, 1, Len(seq) - 1))
             last == seq[Len(seq)]
         IN  IF last \in Range(rest) THEN rest ELSE Append(rest, last)

\* C16: when the parsed answer has no source references and the retained
\* matches have some, the result carries those, deduplicated and in order of
\* first appearance.
C16_BackfillOrdered ==
    (/\ synth.status = "returned"
     /\ raised \cap ModelErrors = {}
     /\ Falsy(synth.parsed, "source_references")
     /\ SourceRefsOf(Top3(gr.search_results)) # <<>>)
        => synth.result.source_references =
              DedupFirst(SourceRefsOf(Top3(gr.search_results)))

\* C17 as claimed: of two matches with equal raw scores in [0,1], one
\* younger and one older than 90 days, the younger is never placed after the
\* older in the re-ranked list.
C17_NewerNotAfterOlder ==
    rank_pc = "sorted" =>
        \A a, b \in 1..Len(refined_results) :
            (/\ refined_results[a].score = refined_results[b].score
             /\ refined_results[a].recent
             /\ ~refined_results[b].recent)
                => a < b

\* C17 amended: the same for equal raw scores above 0; with a raw score of
\* 0.0 both boosted scores are 0.0 and the stable sort keeps the order of
\* the index.
C17_NewerBeforeOlderPositive ==
    rank_pc = "sorted" =>
        /\ Len(refined_results) = Len(rank_results)
        /\ Range(refined_results) = Range(rank_results)
        /\ \A a, b \in 1..Len(refined_results) :
              (/\ refined_results[a].score = refined_results[b].score
               /\ refined_results[a].score > 0
               /\ refined_results[a].recent
               /\ ~refined_results[b].recent)
                  => a < b

\* the index returned the older of two equally scored matches first and the
\* re-ranking put the younger one first
C17_Witness ==
    /\ rank_pc = "sorted"
    /\ \E a, b \in 1..Len(rank_results) :
          /\ a < b
          /\ rank_results[a].score = rank_results[b].score
          /\ rank_results[a].score > 0
          /\ ~rank_results[a].recent
          /\ rank_results[b].recent
          /\ \E c, d \in 1..Len(refined_results) :
                /\ c < d
                /\ refined_results[c] = rank_results[b]
                /\ refined_results[d] = rank_results[a]

\* the batch starts of a call on n texts: 0, 10, 20, ...
BatchStarts(n) == { b \in 0..n : b % BATCH_SIZE = 0 /\ b < n }

\* the calls of a log that belong to the batch starting at b
CallsOf(log, b) == { k \in DOMAIN log : log[k].batch = b }

\* the step is an embed_documents call with this outcome
EmbedStep(outcome) ==
    /\ ipc = "embedding"
    /\ Len(embed_log') = Len(embed_log) + 1
    /\ embed_log'[Len(embed_log')].outcome = outcome

\* the step is an index.upsert call with this outcome
UpsertStep(outcome) ==
    /\ ipc = "upserting"
    /\ Len(upsert_log') = Len(upsert_log) + 1
    /\ upsert_log'[Len(upsert_log')].outcome = outcome

\* where the call stands once the batch at batch_i is over and the loop
\* goes on: at the embedding of the next batch, or returned after the last
GoesOnAfterBatch ==
    /\ ingest_exc' = "none"
    /\ IF batch_i + BATCH_SIZE < Len(texts)
       THEN /\ ipc' = "embedding"
            /\ batch_i' = batch_i + BATCH_SIZE
            /\ attempt' = 0
       ELSE ipc' = "returned"

\* C18 as claimed: when the embedding call of a batch fails with an error
\* that is not a rate-limit error, that batch alone is skipped: nothing of
\* it is stored, the call goes on with the next batch (or returns after the
\* last one) and does not abort.
C18_OtherErrorSkipsBatch ==
    [][ EmbedStep("error") =>
            /\ index' = index
            /\ GoesOnAfterBatch ]_vars

\* the waits the backoff is to take after the 1st .. 5th rate-limit failure
BackoffSeconds == <<5, 10, 20, 40, 80>>

\* what the logs say about the embedding calls of every batch
C19_Logs ==
    /\ \A b \in BatchStarts(Len(texts)) :
          /\ Cardinality(CallsOf(embed_log, b)) <= 5
          /\ Cardinality({ k \in CallsOf(embed_log, b) :
                              embed_log[k].outcome = "rate_limit" }) = 5
                => CallsOf(upsert_log, b) = {}
    /\ \A k \in DOMAIN embed_log :
          embed_log[k].outcome = "rate_limit" =>
             /\ embed_log[k].attempt + 1 =
                   Cardinality({ h \in CallsOf(embed_log, embed_log[k].batch) :
                                    h <= k })
             /\ \E h \in DOMAIN sleep_log :
                   sleep_log[h] = [batch |-> embed_log[k].batch,
                                   attempt |-> embed_log[k].attempt,
                                   seconds |->
                                      BackoffSeconds[embed_log[k].attempt + 1]]

\* C19: a batch sees at most 5 embedding calls; the k-th rate-limit failure
\* in a row is followed by a wait of 5*2^(k-1) seconds (5, 10, 20, 40, 80)
\* and, for k < 5, by the next attempt on the same batch; after the 5th the
\* batch is given up, nothing of it is stored, and the call goes on with
\* the next batch (or returns after the last one).
C19_BoundedBackoff ==
    [][ /\ C19_Logs'
        /\ EmbedStep("rate_limit") =>
              /\ attempt < 5
              /\ clock' = clock + BackoffSeconds[attempt + 1]
              /\ index' = index
              /\ IF attempt + 1 < 5
                 THEN /\ ipc' = "embedding"
                      /\ batch_i' = batch_i
                      /\ attempt' = attempt + 1
                      /\ ingest_exc' = "none"
                 ELSE GoesOnAfterBatch ]_vars

\* the first of three batches was rate-limited five times, with the waits
\* 5, 10, 20, 40, 80, and the two batches after it were stored
C19_Witness ==
    /\ ipc = "returned"
    /\ Len(texts) = 2 * BATCH_SIZE + 1
    /\ Len(embed_log) = 7
    /\ \A k \in 1..5 : /\ embed_log[k].batch = 0
                       /\ embed_log[k].outcome = "rate_limit"
                       /\ sleep_log[k].seconds = BackoffSeconds[k]
    /\ Len(upsert_log) = 2
    /\ \A k \in 1..2 : /\ upsert_log[k].outcome = "ok"
                       /\ upsert_log[k].batch = k * BATCH_SIZE
    /\ \A k \in 1..(BATCH_SIZE + 1) :
          \E x \in DOMAIN index[namespace] :
             index[namespace][x].metadata.text = BATCH_SIZE + k
    /\ \A x \in DOMAIN index[namespace] :
          index[namespace][x].metadata.text > BATCH_SIZE

\* what the logs say about the batches after a failed upsert
C20_Logs ==
    /\ ipc = "aborted" =>
          /\ embed_log # <<>>
          /\ embed_log[Len(embed_log)].outcome = "error"
    /\ \A k \in DOMAIN embed_log :
          (/\ embed_log[k].outcome = "ok"
           /\ \/ batch_i > embed_log[k].batch
              \/ ipc = "returned")
             => CallsOf(upsert_log, embed_log[k].batch) # {}
    /\ ipc = "returned" =>
          \A b \in BatchStarts(Len(texts)) : CallsOf(embed_log, b) # {}

\* C20: when the upsert of a batch raises, the call goes on: the embedding
\* of the next batch is called (or the call returns normally after the last
\* batch), every batch whose embedding answers gets its upsert attempted,
\* and nothing but an error of the embedding provider ever ends the call
\* with an exception.
C20_UpsertErrorContinues ==
    [][ /\ C20_Logs'
        /\ UpsertStep("error") =>
              /\ index' = index
              /\ GoesOnAfterBatch ]_vars

\* the upsert of the first of three batches raised; the two later batches
\* were embedded and stored and the call returned
C20_Witness ==
    /\ ipc = "returned"
    /\ ingest_exc = "none"
    /\ Len(texts) = 2 * BATCH_SIZE + 1
    /\ Len(upsert_log) = 3
    /\ upsert_log[1].batch = 0
    /\ upsert_log[1].outcome = "error"
    /\ \A k \in 2..3 : /\ upsert_log[k].outcome = "ok"
                       /\ upsert_log[k].batch = (k - 1) * BATCH_SIZE
    /\ \A b \in BatchStarts(Len(texts)) :
          \E k \in CallsOf(embed_log, b) : embed_log[k].outcome = "ok"
    /\ \E x \in DOMAIN index[namespace] :
          index[namespace][x].metadata.text = 2 * BATCH_SIZE + 1

\* how many items the successful upserts of a log wrote
RECURSIVE UpsertedCount(_)
UpsertedCount(log) ==
    IF log = <<>>
    THEN 0
    ELSE (IF log[1].outcome = "ok" THEN Len(log[1].items) ELSE 0)
            + UpsertedCount(Tail(log))

\* C21 as claimed: the count a caller reports as ingested (the N of
\* "Successfully ingested N tickets", chunks_ingested of the crawler) is the
\* number of items the call upserted into the index, also when a batch was
\* skipped or its upsert failed.
C21_ReportedIsStored ==
    (ipc = "reported" /\ report.status = "success")
        => report.count = UpsertedCount(upsert_log)

\* the places <<h, j>> of the accepted upserts
StoredPlaces ==
    { w \in (DOMAIN stored_log) \X (1..BATCH_SIZE) :
         w[2] <= Len(stored_log[w[1]].items) }

StoredItem(w) == stored_log[w[1]].items[w[2]]

\* the accepted writes of a source_id into a namespace
WritesOf(ns, sid) ==
    { w \in StoredPlaces :
         /\ stored_log[w[1]].namespace = ns
         /\ StoredItem(w).metadata.has_source_id
         /\ StoredItem(w).metadata.source_id = sid }

\* the latest of a set of places
Latest(W) ==
    CHOOSE w \in W :
       \A v \in W : v[1] < w[1] \/ (v[1] = w[1] /\ v[2] <= w[2])

\* C22: whatever calls were made, a namespace holds exactly one entry for
\* every source_id that was ever stored in it, carrying the vector, text and
\* metadata of the latest accepted upsert of that source_id, and none for
\* other source_ids; every item stored without source_id has an entry of
\* its own, under an identifier no other stored item has.
C22_Idempotent ==
    \A ns \in Namespaces :
       /\ \A sid \in 1..MaxTexts :
             LET W == WritesOf(ns, sid)
                 E == { x \in DOMAIN index[ns] :
                           /\ index[ns][x].metadata.has_source_id
                           /\ index[ns][x].metadata.source_id = sid }
             IN  IF W = {}
                 THEN E = {}
                 ELSE /\ Cardinality(E) = 1
                      /\ \A x \in E : index[ns][x] = StoredItem(Latest(W))
       /\ \A w \in StoredPlaces :
             (/\ stored_log[w[1]].namespace = ns
              /\ ~StoredItem(w).metadata.has_source_id)
                => /\ StoredItem(w).id \in DOMAIN index[ns]
                   /\ index[ns][StoredItem(w).id] = StoredItem(w)
                   /\ \A v \in StoredPlaces :
                         v # w => StoredItem(v).id # StoredItem(w).id

\* two ingestions stored the same source_id in the same namespace, the
\* second with changed text: the namespace holds one entry, with the text
\* of the second
C22_Witness ==
    /\ calls = 2
    /\ Len(stored_log) = 2
    /\ stored_log[1].call = 1
    /\ stored_log[2].call = 2
    /\ stored_log[1].namespace = stored_log[2].namespace
    /\ stored_log[1].items[1].metadata.has_source_id
    /\ stored_log[2].items[1].metadata.has_source_id
    /\ stored_log[1].items[1].metadata.source_id
          = stored_log[2].items[1].metadata.source_id
    /\ stored_log[1].items[1].metadata.text
          # stored_log[2].items[1].metadata.text
    /\ Cardinality(DOMAIN index[namespace]) = 1
    /\ \A x \in DOMAIN index[namespace] :
          index[namespace][x].metadata.text
             = stored_log[2].items[1].metadata.text

\* the texts of the embedding calls of a log, one after the other
RECURSIVE EmbeddedTexts(_)
EmbeddedTexts(log) ==
    IF log = <<>> THEN <<>> ELSE log[1].texts \o EmbeddedTexts(Tail(log))

\* no call of the provider or of the index failed in this ingestion
NoFailure ==
    /\ \A k \in DOMAIN embed_log : embed_log[k].outcome = "ok"
    /\ \A k \in DOMAIN upsert_log : upsert_log[k].outcome = "ok"

\* every item has a source_id and no two items share one
DistinctSourceIds ==
    /\ \A k \in DOMAIN metadatas : metadatas[k].has_source_id
    /\ \A k, h \in DOMAIN metadatas :
          metadatas[k].source_id = metadatas[h].source_id => k = h

\* C23: without a failure, a call on N texts with distinct source ids has
\* issued exactly ceil(N/10) embedding calls when it is over, each with at
\* most 10 texts, together the input in its order, and every one of the N
\* items is stored in the given namespace with its text and source_id.
C23_BatchesOfTen ==
    (ipc \in {"returned", "reported"} /\ NoFailure /\ DistinctSourceIds) =>
        /\ Len(embed_log) = (Len(texts) + 9) \div 10
        /\ \A k \in DOMAIN embed_log : Len(embed_log[k].texts) <= 10
        /\ EmbeddedTexts(embed_log) = texts
        /\ Len(upsert_log) = Len(embed_log)
        /\ \A k \in DOMAIN upsert_log : upsert_log[k].namespace = namespace
        /\ \A k \in DOMAIN texts :
              \E x \in DOMAIN index[namespace] :
                 /\ index[namespace][x].metadata.text = texts[k]
                 /\ index[namespace][x].metadata.source_id
                       = metadatas[k].source_id
                 /\ index[namespace][x].values = VectorOf(texts[k])
        /\ Cardinality(DOMAIN index[namespace]) >= Len(texts)

\* 12 documents were ingested with 2 embedding calls and 12 are stored
C23_Witness ==
    /\ ipc = "returned"
    /\ Len(texts) = 12
    /\ DistinctSourceIds
    /\ NoFailure
    /\ Len(embed_log) = 2
    /\ Len(embed_log[1].texts) = 10
    /\ embed_log[2].texts = <<texts[11], texts[12]>>
    /\ Cardinality(DOMAIN index[namespace]) = 12

\* the namespace that belongs to an organisation
OwnNamespace(org, ns) ==
    /\ org = 1 => ns = "org_1"
    /\ org = 2 => ns = "org_2"

\* C24: every similarity search of a query or widget request of
\* organisation X names namespace org_X, every upsert of an ingestion for
\* organisation X names namespace org_X, and no step of an ingestion
\* changes the entries of another namespace.
C24_OwnNamespaceOnly ==
    [][ /\ endpoint' # "none" =>
              \A k \in DOMAIN search_log' :
                 OwnNamespace(request'.org_id, search_log'[k])
        /\ \A k \in DOMAIN upsert_log' :
              OwnNamespace(ingest_org', upsert_log'[k].namespace)
        /\ \A ns \in DOMAIN index :
              ~OwnNamespace(ingest_org, ns) => index'[ns] = index[ns] ]_vars

\* a widget request of organisation 2 was answered from a search in org_2
C24_Witness ==
    /\ endpoint = "widget"
    /\ request.org_id = 2
    /\ pc = "done"
    /\ search_log = <<"org_2">>
    /\ response # NoResponse
    /\ response.text.tier = "smart_assist"

\* C25 as claimed: when the widget answers without a completed synthesis
\* and the search returned matches of which none is usable, the answer is
\* the fixed not-found message, not a search-results answer without entries.
C25_NothingUsableNotFound ==
    (/\ endpoint = "widget"
     /\ pc = "done"
     /\ fault = "none"
     /\ synth.status = "none"
     /\ results.returned
     /\ results.value # <<>>
     /\ \A k \in DOMAIN results.value : ~Usable(results.value[k]))
        => response = NotFoundMessage

\* C26 as claimed: the full-tier answer of the widget lists at most 3 source
\* references and none of them twice, whatever list the synthesis result
\* carries.
C26_RefsFewAndUnique ==
    (/\ endpoint = "widget"
     /\ pc = "done"
     /\ response # NoResponse
     /\ response.text.tier = "smart_assist")
        => /\ Len(response.text.refs) <= 3
           /\ \A a, b \in DOMAIN response.text.refs :
                 response.text.refs[a] = response.text.refs[b] => a = b

\* C27: in every interleaving of the search and the order lookup of
\* generate_response, the prompt is built and the model invoked only when
\* both have completed (and, for the widget, after its own search has
\* answered), from the joined results, and at most once per call.
C27_JoinBeforeModel ==
    [][ (nLLM' # nLLM \/ prompt' # prompt) =>
            /\ gr.search_task = "done"
            /\ gr.orders_task = "done"
            /\ endpoint = "widget" => results.returned
            /\ nLLM = 0
            /\ nLLM' = 1
            /\ prompt = NoPrompt
            /\ prompt' = BuildPrompt(ticket_body, gr.search_results,
                                     gr.order_status) ]_vars

\* the model of a /suggest request is being invoked, after a search with
\* matches and the order lookup
C27_Witness ==
    /\ endpoint = "suggest"
    /\ pc = "llm"
    /\ nLLM = 1
    /\ nSearch = 1
    /\ gr.search_task = "done"
    /\ gr.orders_task = "done"
    /\ gr.search_results # <<>>
    /\ gr.order_status = "orders"
    /\ prompt # NoPrompt

\* C29 as claimed: every result generate_response returns has a
\* confidence score, and it lies within [0,1] (0..100 percent), whatever
\* the model put in its output.
C29_ConfidenceInRange ==
    synth.status = "returned" =>
        /\ "confidence_score" \in DOMAIN synth.result
        /\ synth.result.confidence_score >= 0
        /\ synth.result.confidence_score <= 100

\* C30: every item an embed_and_store call sends to the index, in whichever
\* batch and after whatever waits, carries as unix_timestamp the time at
\* which the call began, and so does every entry the call has stored.
C30_OneTimestamp ==
    /\ \A k \in DOMAIN upsert_log :
          \A j \in DOMAIN upsert_log[k].items :
             /\ upsert_log[k].items[j].metadata.unix_timestamp = current_time
             /\ current_time <= clock
    /\ \A k \in DOMAIN sleep_log : current_time < clock
    /\ \A h \in DOMAIN stored_log :
          stored_log[h].call = calls =>
             \A j \in DOMAIN stored_log[h].items :
                \E x \in DOMAIN index[stored_log[h].namespace] :
                   /\ x = stored_log[h].items[j].id
                   /\ index[stored_log[h].namespace][x].metadata.unix_timestamp
                         = current_time

\* three batches were stored, the later ones after rate-limit waits, and
\* all 21 entries carry the time at which the call began
C30_Witness ==
    /\ ipc = "returned"
    /\ Len(texts) = 2 * BATCH_SIZE + 1
    /\ Len(upsert_log) = 3
    /\ \A k \in 1..3 : upsert_log[k].outcome = "ok"
    /\ clock >= current_time + BACKOFF_BASE
    /\ Cardinality(DOMAIN index[namespace]) = 2 * BATCH_SIZE + 1
    /\ \A x \in DOMAIN index[namespace] :
          index[namespace][x].metadata.unix_timestamp = current_time

\* what call r answers when it is handled alone and its search answers
\* after s ticks and its model after m ticks (-1: not within the budget)
SoloResponses(r, s, m) ==
    LET found == PairInputs[r].matches
        source_refs == SourceRefsOf(Top3(found))
    IN  IF s = -1 THEN {TimeoutHandler(<<>>)}
        ELSE IF s > LLM_SKIP_MARK THEN {TimeoutHandler(found)}
        ELSE IF m = -1 THEN {TimeoutHandler(<<>>)}
        ELSE { SmartAssistMessage(WithBackfill(PairInputs[r].parsed,
                                               source_refs, l)) :
                  l \in SetToLists(source_refs) }

C31_BothGivenEngineResult ==
    (endpoint = "suggest" /\ request.ticket_body # ""
        /\ request.customer_email # "")
        => /\ pc # "fetching"
           /\ pc = "done" =>
                 /\ response.status = 200
                 /\ synth.status = "returned"
                 /\ response.body = synth.result
                 /\ ticket_body = request.ticket_body
                 /\ email = request.customer_email

\* C32: a /suggest request without a ticket body for which none is obtained
\* (get_client_context raises, the adapter has no fetch_ticket, the fetch
\* answers nothing or a ticket without text) ends with status 400 or 500,
\* and generate_response was never entered: no search, no model invocation.
C32_NoBodyNoEngine ==
    (endpoint = "suggest" /\ request.ticket_body = "" /\ pc = "done"
        /\ ticket_body = "")
        => /\ response.status \in {400, 500}
           /\ gr = NoFrame
           /\ synth = NoSynth
           /\ nSearch = 0
           /\ nLLM = 0

\* the connector was asked and gave no text: the 400 answer
C32_Witness ==
    /\ endpoint = "suggest"
    /\ pc = "done"
    /\ request.ticket_body = ""
    /\ adapter = "gorgias"
    /\ ticket_body = ""
    /\ email = "fetched@x"
    /\ response.status = 400
    /\ gr = NoFrame

\* C33: when crawl_and_ingest returns status success it has called
\* embed_and_store exactly once, with the namespace org_{org_id} and with
\* as many metadatas as texts, whose chunk_index values are 0, 1, 2, ... in
\* order; when it returns status skipped it has not called embed_and_store.
C33_OneStoreCallOnSuccess ==
    /\ crawl_result.status = "success" =>
          /\ Len(StoreCalls) = 1
          /\ StoreCalls[1].namespace = NamespaceOf(crawl_req.org_id)
          /\ Len(StoreCalls[1].texts) = Len(StoreCalls[1].metadatas)
          /\ Len(StoreCalls[1].texts) = crawl_result.chunks_ingested
          /\ \A k \in 1..Len(StoreCalls[1].metadatas) :
                StoreCalls[1].metadatas[k].chunk_index = k - 1
    /\ crawl_result.status = "skipped" => StoreCalls = <<>>

\* a crawl through Apify whose text was split into three chunks and stored
C33_Witness ==
    /\ crawl_result.status = "success"
    /\ crawl_req.client
    /\ Len(StoreCalls) = 1
    /\ Len(StoreCalls[1].texts) = 3
    /\ StoreCalls[1].metadatas[3].chunk_index = 2

\* C34: when no content came from Apify (no client, the crawl raised, or
\* its items held no text), crawl_and_ingest returns status skipped or
\* error only after the fallback GET has been attempted.
C34_FallbackBeforeGivingUp ==
    (crawl_result.status \in {"skipped", "error"} /\ content = <<>>)
        => \E k \in 1..Len(crawl_log) : crawl_log[k].op = "httpx"

\* the places of the matches that the re-ranking retains: those with fewer
\* than three matches before them in the order of the boosted scores
Retained(found) ==
    {i \in 1..Len(found) :
        Cardinality({j \in 1..Len(found) :
                        \/ Boosted(found[j]) > Boosted(found[i])
                        \/ Boosted(found[j]) = Boosted(found[i]) /\ j < i})
            < TOP_N}

\* C35: the system instruction carries the uncertainty-marker directive
\* exactly when every match retained after the re-ranking (at most three)
\* has a raw score below 0.35, which includes the empty list; the boosted
\* scores and the matches that were not retained play no part, and a raw
\* score of exactly 0.35 lifts the gate.
C35_GateOnRawScoreOfRetained ==
    rank_pc = "sorted" =>
        /\ rank_system \in {"must_start_uncertain",
                            "use_high_confidence_context"}
        /\ rank_system = "must_start_uncertain"
              <=> \A i \in Retained(rank_results) :
                     rank_results[i].score < LOW_SCORE

\* four matches: the three retained have raw scores below 0.35 and boosted
\* scores above it, the fourth has a raw score above 0.35 and is dropped;
\* the directive is in the instruction
C35_Witness ==
    /\ rank_pc = "sorted"
    /\ Len(rank_results) = 4
    /\ rank_system = "must_start_uncertain"
    /\ \E i \in 1..4 :
          /\ i \notin Retained(rank_results)
          /\ rank_results[i].score > LOW_SCORE
    /\ \A i \in Retained(rank_results) :
          Boosted(rank_results[i]) >= LOW_SCORE * NO_BOOST

\* C36: the search-results answer of the timeout handler lists at most 3
\* entries; the entries are, in the order of retrieval, matches whose
\* stripped text has at least 50 characters and does not hold the
\* placeholder; each entry shows no more than the first 200 characters.
C36_FallbackEntries ==
    (late_response # NoResponse
        /\ late_response.text.tier = "search_results")
        => LET shown == late_response.text.matches
           IN  /\ Len(shown) <= FALLBACK_MAX_MATCHES
               /\ \E f \in [1..Len(shown) -> 1..Len(late_results)] :
                     /\ \A a, b \in 1..Len(shown) : a < b => f[a] < f[b]
                     /\ \A a \in 1..Len(shown) :
                           LET m == late_results[f[a]]
                           IN  /\ m.len >= MIN_CONTENT_LEN
                               /\ ~m.placeholder
                               /\ shown[a].score = m.score
                               /\ shown[a].tid \in {m.source_id, "?"}
                               /\ shown[a].preview <= PREVIEW_LEN
                               /\ shown[a].preview <= m.len

\* four matches were retrieved, the first is too short, the other three are
\* listed and the one longer than a preview is cut
C36_Witness ==
    /\ late_response # NoResponse
    /\ late_response.text.tier = "search_results"
    /\ Len(late_results) = 4
    /\ late_results[1].len < MIN_CONTENT_LEN
    /\ Len(late_response.text.matches) = 3
    /\ \E a \in 1..3 :
          /\ late_results[a + 1].len > PREVIEW_LEN
          /\ late_response.text.matches[a].preview = PREVIEW_LEN

\* the widget answered from the handler of asyncio.TimeoutError
AnsweredByTimeout ==
    /\ endpoint = "widget"
    /\ response # NoResponse
    /\ "TimeoutError" \in raised
    /\ response.text.tier \in {"not_found", "search_results"}

\* C37: once the widget has answered because the timeout over the pipeline
\* fired, no step starts a model invocation, an order lookup or a search
\* for the request; and when the timeout fired while the similarity search
\* was still running, generate_response was never entered: no order lookup
\* and no model invocation at all.
C37_TimeoutCancelsPipeline ==
    [][ /\ AnsweredByTimeout =>
              /\ nLLM' = nLLM
              /\ nSearch' = nSearch
              /\ gr' = gr
              /\ prompt' = prompt
        /\ (AnsweredByTimeout' /\ nSearch' = 1 /\ ~results'.returned) =>
              /\ gr' = NoFrame
              /\ nLLM' = 0
              /\ prompt' = NoPrompt ]_vars

\* the timeout fired while the similarity search of the pipeline was
\* running, and the answer is the not-found message
C37_Witness ==
    /\ AnsweredByTimeout
    /\ pc = "done"
    /\ nSearch = 1
    /\ ~results.returned
    /\ now >= deadline
    /\ deadline > start_time
    /\ gr = NoFrame
    /\ nLLM = 0
    /\ response = NotFoundMessage

\* the batch starting at b is over: its upsert was issued (stored, or
\* failed and passed over), or all its attempts were rate-limited and it
\* was skipped
BatchSettled(b) ==
    \/ CallsOf(upsert_log, b) # {}
    \/ Cardinality({ k \in CallsOf(embed_log, b) :
                        embed_log[k].outcome = "rate_limit" }) = MAX_RETRIES

\* C38: whatever the provider and the index answer, a call of
\* embed_and_store comes to its end, returned or aborted; the call leaves
\* a batch only when the batch was upserted or skipped, or by aborting, so
\* that every batch it begins is eventually upserted, skipped, or the call
\* is aborted; and no batch is embedded more than max_retries times.
C38_Terminates ==
    /\ [](/\ attempt < MAX_RETRIES
          /\ \A b \in BatchStarts(MaxTexts) :
                Cardinality(CallsOf(embed_log, b)) <= MAX_RETRIES)
    /\ [][ (ipc \in {"embedding", "upserting"}
             /\ (batch_i' # batch_i \/ ipc' = "returned"))
               => \A b \in BatchStarts(Len(texts)) :
                     b <= batch_i => BatchSettled(b)' ]_vars
    /\ (ipc \in {"start", "embedding", "upserting"})
          ~> (ipc \in {"returned", "aborted"})

\* a call on three batches has returned: the first was skipped after five
\* rate-limit errors, the upsert of the second failed, the third was stored
C38_Witness ==
    /\ ipc = "returned"
    /\ Len(texts) = 2 * BATCH_SIZE + 1
    /\ Cardinality(CallsOf(embed_log, 0)) = MAX_RETRIES
    /\ CallsOf(upsert_log, 0) = {}
    /\ \E k \in CallsOf(upsert_log, BATCH_SIZE) :
          upsert_log[k].outcome = "error"
    /\ \E k \in CallsOf(upsert_log, 2 * BATCH_SIZE) :
          upsert_log[k].outcome = "ok"

\* the item at place j of the accepted upsert k of the call is the last one
\* the call wrote under its identifier
LastWritten(k, j) ==
    \A h \in DOMAIN upsert_log : \A g \in DOMAIN upsert_log[h].items :
       (/\ upsert_log[h].outcome = "ok"
        /\ upsert_log[h].items[g].id = upsert_log[k].items[j].id)
          => h < k \/ (h = k /\ g <= j)

\* what a search on the namespace of the call answers for every item the
\* call stored and did not overwrite
RoundTrip ==
    (hits # NoHits /\ hits.namespace = namespace) =>
       \A k \in DOMAIN upsert_log : \A j \in DOMAIN upsert_log[k].items :
          (upsert_log[k].outcome = "ok" /\ LastWritten(k, j)) =>
             LET t == texts[upsert_log[k].batch + j]
                 m == metadatas[upsert_log[k].batch + j]
                 x == upsert_log[k].items[j].id
             IN  /\ x \in DOMAIN hits.matches
                 /\ hits.matches[x].page_content = t
                 /\ DOMAIN hits.matches[x].metadata
                       = (DOMAIN m) \cup {"unix_timestamp"}
                 /\ \A key \in DOMAIN m :
                       hits.matches[x].metadata[key] = m[key]
                 /\ hits.matches[x].metadata.unix_timestamp = current_time

\* C39: a similarity_search_with_score match for an item that
\* embed_and_store stored with text t and metadata m, in the namespace it
\* was stored in, is a document with page_content t and with the metadata m
\* plus unix_timestamp and without the text key; and no step of
\* embed_and_store or of the search changes the texts and the metadata
\* dictionaries the caller handed over.
C39_StoreRetrieveRoundTrip ==
    [][ /\ RoundTrip'
        /\ ipc # "reported" =>
              /\ metadatas' = metadatas
              /\ texts' = texts
        /\ (hits = NoHits /\ hits' # NoHits) =>
              /\ metadatas' = metadatas
              /\ texts' = texts
              /\ index' = index ]_vars

\* after a call that stored three batches, with rate-limit waits between
\* them, a search on its namespace answers all 21 items
C39_Witness ==
    /\ hits # NoHits
    /\ hits.namespace = namespace
    /\ Len(texts) = 2 * BATCH_SIZE + 1
    /\ Cardinality(DOMAIN hits.matches) = 2 * BATCH_SIZE + 1
    /\ sleep_log # <<>>
    /\ \E x \in DOMAIN hits.matches :
          /\ hits.matches[x].page_content = texts[2 * BATCH_SIZE + 1]
          /\ hits.matches[x].metadata.unix_timestamp = current_time
          /\ "text" \notin DOMAIN hits.matches[x].metadata

====
